---- MODULE Spec2Model ----
(***************************************************************************)
(* A model of the model-file scanner src/wildcards/scan_model.py (and its  *)
(* older sibling src/wildcards/lora_scan.py, whose shared functions are    *)
(* line-for-line the same except get_recursive).                           *)
(*                                                                         *)
(* Representation.                                                         *)
(*  - A Python str is a sequence of one-character strings, so that the     *)
(*    substring tests, float() parsing, str.split and the regular          *)
(*    expressions of the source are computed, not assumed.                 *)
(*  - A JSON value is a tagged record [t, v]: t is "str", "map", "list",   *)
(*    "num" or "null".  A map is a function whose DOMAIN is its key set;   *)
(*    dictionary keys and the five base-model codes are plain strings.     *)
(*  - A call that raises is the outcome [k |-> "raise", e |-> <exception>].*)
(***************************************************************************)
EXTENDS Integers, Sequences, FiniteSets, TLC

VARIABLES
    hints,   \* Hints: file name -> hint record (loaded once from --hint)
    fs,      \* the scanned directory: file name -> the record its companions yield
    todo,    \* files the walk of the running pass has not visited yet
    out,     \* lines the override-list pass has printed to its output stream
    log,     \* logging.warning records
    pc,      \* position of the run
    weight_regexps, \* the module-level list weight_regexps (slot 0 is rewritten)
    call,    \* arguments of the function under examination
    ret,     \* its outcome, or Pending
    args,    \* the parsed command line (argparse namespace)
    fragment, \* the YamlFragment tuple `result` that yaml_fragment_read builds
    eval_data, \* llm_eval: `data`, the list of Response objects eval hands to collect
    heap     \* llm_eval: the list objects the prompts fields refer to

vars == <<hints, fs, todo, out, log, pc, weight_regexps, call, ret, args, fragment, eval_data, heap>>

(***************************************************************************)
(* JSON values and Python truthiness                                       *)
(***************************************************************************)
JStr(s) == [t |-> "str", v |-> s]
JMap(m) == [t |-> "map", v |-> m]
JList(l) == [t |-> "list", v |-> l]
JNum(n) == [t |-> "num", v |-> n]
JNull == [t |-> "null", v |-> 0]

EmptyMap == JMap(<<>>)
EmptyStr == JStr(<<>>)

\* bool(x) of a JSON value: '', {}, [], 0 and None are false.
Truthy(x) ==
    CASE x.t = "str" -> x.v # <<>>
      [] x.t = "map" -> DOMAIN x.v # {}
      [] x.t = "list" -> x.v # <<>>
      [] x.t = "num" -> x.v # 0
      [] OTHER -> FALSE

\* Equality of two JSON values (tags first: values of different tags are
\* different and their payloads are never compared).
JEq(a, b) == a.t = b.t /\ a.v = b.v

Pending == [k |-> "pending"]
Return(x) == [k |-> "return", v |-> x]
Raise(e) == [k |-> "raise", e |-> e]

\* dict.get(key, default)
DictGet(m, key, default) == IF key \in DOMAIN m THEN m[key] ELSE default

(***************************************************************************)
(* The fixed tables                                                        *)
(***************************************************************************)
base_model_keys == <<"ss_base_model_version", "baseModel", "BaseModel", "sd version">>

normalize_map == <<
    << <<"s", "d", "_", "1", ".", "5">>, "sd15" >>,
    << <<"S", "D", " ", "1", ".", "5">>, "sd15" >>,
    << <<"S", "D", "1">>, "sd15" >>,
    << <<"I", "l", "l", "u", "s", "t", "r", "i", "o", "u", "s">>, "ilxl" >>,
    << <<"P", "o", "n", "y">>, "pony" >>,
    << <<"S", "D", "X", "L", " ", "1", ".", "0">>, "sdxl" >>,
    << <<"S", "D", "X", "L">>, "sdxl" >>,
    << <<"s", "d", "1", "5">>, "sd15" >>,
    << <<"s", "d", "x", "l">>, "sdxl" >>,
    << <<"i", "l", "x", "l">>, "ilxl" >>,
    << <<"p", "o", "n", "y">>, "pony" >> >>

model_key_map == <<
    << <<"p", "d", "x", "l">>, "pony" >>,
    << <<"p", "o", "n", "y">>, "pony" >>,
    << <<"i", "l", "x", "l">>, "ilxl" >>,
    << <<"p", "x", "l">>, "pony" >>,
    << <<"i", "l", "l">>, "ilxl" >>,
    << <<"i", "x", "l">>, "ilxl" >>,
    << <<"i", "l">>, "ilxl" >>,
    << <<"x", "l">>, "sdxl" >>,
    << <<>>, "sd15" >> >>

description_keys == << <<"model", "description">>, <<"ModelDescription">>, <<"description">> >>
weight_keys == << <<"preferred weight">> >>
title_keys == << <<"model", "name">>, <<"ModelName">> >>
keyword_keys == << <<"activation text">>, <<"trainedWords">>, <<"TrainedWords">> >>
creator_keys == << <<"creator", "username">> >>

Codes == {"sd15", "sdxl", "pony", "ilxl", "unkn"}

(***************************************************************************)
(* Strings                                                                 *)
(***************************************************************************)
\* str.lower() of one character.
UpperCase == <<"A", "B", "C", "D", "E", "F", "G", "H", "I", "J", "K", "L", "M",
               "N", "O", "P", "Q", "R", "S", "T", "U", "V", "W", "X", "Y", "Z">>
LowerCase == <<"a", "b", "c", "d", "e", "f", "g", "h", "i", "j", "k", "l", "m",
               "n", "o", "p", "q", "r", "s", "t", "u", "v", "w", "x", "y", "z">>

LowerChar(c) ==
    IF \E i \in 1..Len(UpperCase) : UpperCase[i] = c
    THEN LowerCase[CHOOSE i \in 1..Len(UpperCase) : UpperCase[i] = c]
    ELSE c

Lower(s) == [i \in 1..Len(s) |-> LowerChar(s[i])]

\* key in s: key occurs in s as a contiguous substring ('' occurs in every s).
Contains(s, key) ==
    \E i \in 0..(Len(s) - Len(key)) :
        \A j \in 1..Len(key) : s[i + j] = key[j]

Suffix == <<".", "s", "a", "f", "e", "t", "e", "n", "s", "o", "r", "s">>

(***************************************************************************)
(* Base-model classification                                               *)
(***************************************************************************)
\* normalize_map.get(value): the mapped code, or "" (None) when value is no
\* key.  A list or a mapping is unhashable: dict.get raises TypeError.
NormalizeIdx(s) == {i \in 1..Len(normalize_map) : normalize_map[i][1] = s}

NormalizeGet(value) ==
    IF value.t \in {"list", "map"} THEN Raise("TypeError")
    ELSE IF value.t = "str" /\ NormalizeIdx(value.v) # {}
         THEN Return(normalize_map[CHOOSE i \in NormalizeIdx(value.v) : TRUE][2])
         ELSE Return("")

\* The loop of get_base_model from key index ki, record index di on.
RECURSIVE BaseModelFrom(_, _, _)
BaseModelFrom(metadata, ki, di) ==
    IF ki > Len(base_model_keys) THEN Return("unkn")
    ELSE IF di > Len(metadata) THEN BaseModelFrom(metadata, ki + 1, 1)
    ELSE LET value == DictGet(metadata[di], base_model_keys[ki], JNull)
         IN IF ~Truthy(value) THEN BaseModelFrom(metadata, ki, di + 1)
            ELSE LET n == NormalizeGet(value)
                 IN IF n.k = "raise" THEN n
                    ELSE IF n.v # "" THEN n
                    ELSE BaseModelFrom(metadata, ki, di + 1)

get_base_model(metadata) == BaseModelFrom(metadata, 1, 1)

\* The loop of get_base_model_from_name from entry i of model_key_map on.
RECURSIVE NameFrom(_, _)
NameFrom(filename, i) ==
    IF i > Len(model_key_map) THEN "unkn"
    ELSE IF Contains(filename, model_key_map[i][1]) THEN model_key_map[i][2]
    ELSE NameFrom(filename, i + 1)

\* A variant of get_base_model_from_name that compares the name as it is
\* spelled.
get_base_model_from_name_cased(name) == NameFrom(name, 1)

\* target.name is the file name with its extension.
get_base_model_from_name(name) == NameFrom(Lower(name), 1)

(***************************************************************************)
(* Field extraction                                                        *)
(***************************************************************************)
BraceStr == <<"{", "}">>

\* One step of the loop of get_recursive: target.get(key, {}) exists only on
\* a mapping (AttributeError otherwise); the string '{}' counts as {}.
RecursiveStep(target, key) ==
    IF target.t # "map" THEN Raise("AttributeError")
    ELSE LET next == DictGet(target.v, key, EmptyMap)
         IN IF next.t = "str" /\ next.v = BraceStr THEN Return(EmptyMap)
            ELSE Return(next)

RECURSIVE RecursiveFrom(_, _, _)
RecursiveFrom(target, keys, i) ==
    IF i > Len(keys) THEN Return(IF Truthy(target) THEN target ELSE EmptyStr)
    ELSE LET step == RecursiveStep(target, keys[i])
         IN IF step.k = "raise" THEN step
            ELSE RecursiveFrom(step.v, keys, i + 1)

\* get_recursive(target, keys); target is a record, hence a mapping.
get_recursive(target, keys) == RecursiveFrom(JMap(target), keys, 1)

\* The loops of get_value from key-path index ki, record index di on.
RECURSIVE ValueFrom(_, _, _, _)
ValueFrom(metadata, keys_list, ki, di) ==
    IF ki > Len(keys_list) THEN Return(EmptyStr)
    ELSE IF di > Len(metadata) THEN ValueFrom(metadata, keys_list, ki + 1, 1)
    ELSE LET result == get_recursive(metadata[di], keys_list[ki])
         IN IF result.k = "raise" THEN result
            ELSE IF Truthy(result.v) THEN result
            ELSE ValueFrom(metadata, keys_list, ki, di + 1)

get_value(metadata, keys_list) == ValueFrom(metadata, keys_list, 1, 1)

get_description(metadata) == get_value(metadata, description_keys)
get_weight_from_metadata(metadata) == get_value(metadata, weight_keys)
get_title(metadata) == get_value(metadata, title_keys)
get_creator(metadata) == get_value(metadata, creator_keys)

\* str.strip(): the blank is the only whitespace of the model's alphabet.
RECURSIVE LStrip(_)
LStrip(s) == IF s # <<>> /\ Head(s) = " " THEN LStrip(Tail(s)) ELSE s

RECURSIVE RStrip(_)
RStrip(s) == IF s # <<>> /\ s[Len(s)] = " " THEN RStrip(SubSeq(s, 1, Len(s) - 1)) ELSE s

Strip(s) == RStrip(LStrip(s))

\* str.split(','): the pieces between the commas, in order (always >= 1).
RECURSIVE SplitFrom(_, _, _)
SplitFrom(s, i, piece) ==
    IF i > Len(s) THEN <<piece>>
    ELSE IF s[i] = "," THEN <<piece>> \o SplitFrom(s, i + 1, <<>>)
    ELSE SplitFrom(s, i + 1, Append(piece, s[i]))

Split(s) == SplitFrom(s, 1, <<>>)

\* get_keywords: a list is returned as it is, '' gives [], a string is split
\* and stripped; anything else has no split method.
get_keywords(metadata) ==
    LET result == get_value(metadata, keyword_keys)
    IN IF result.k = "raise" THEN result
       ELSE IF result.v.t = "list" THEN Return(result.v.v)
       ELSE IF result.v.t = "str" /\ result.v.v = <<>> THEN Return(<<>>)
       ELSE IF result.v.t = "str"
            THEN Return([i \in 1..Len(Split(result.v.v)) |-> JStr(Strip(Split(result.v.v)[i]))])
       ELSE Raise("AttributeError")

(***************************************************************************)
(* Decimal strings and binary floating point                               *)
(*                                                                         *)
(* float() and the arithmetic of calc_weight work on IEEE-754 doubles.  A  *)
(* double x is kept exactly as the pair [q, d] with                        *)
(*        x = q / 100 + d * 2^-59 / 100 :                                  *)
(* q is the decimal value in hundredths the computation aims at and d the  *)
(* accumulated rounding error.  Every double met here is a multiple of     *)
(* 2^-59 (the values are 0 or lie in [0.01, 2^17)) and every decimal has   *)
(* at most two fractional digits, so the pair is exact and Round53 is      *)
(* round-to-nearest-even on 53 significant bits.  A decimal with more      *)
(* fractional digits has no value here: Dec100 is undefined on it.         *)
(***************************************************************************)
Digits == {"0", "1", "2", "3", "4", "5", "6", "7", "8", "9"}

DigitVal(c) ==
    CASE c = "0" -> 0 [] c = "1" -> 1 [] c = "2" -> 2 [] c = "3" -> 3 [] c = "4" -> 4
      [] c = "5" -> 5 [] c = "6" -> 6 [] c = "7" -> 7 [] c = "8" -> 8 [] c = "9" -> 9

\* The strings float() accepts over the alphabet of digits and '.': at least
\* one digit and at most one point.
IsFloatStr(s) ==
    /\ \A i \in 1..Len(s) : s[i] \in Digits \cup {"."}
    /\ \E i \in 1..Len(s) : s[i] \in Digits
    /\ Cardinality({i \in 1..Len(s) : s[i] = "."}) <= 1

HasPoint(s) == \E i \in 1..Len(s) : s[i] = "."

RECURSIVE DigitsVal(_)
DigitsVal(s) == IF s = <<>> THEN 0 ELSE 10 * DigitsVal(SubSeq(s, 1, Len(s) - 1)) + DigitVal(s[Len(s)])

PointAt(s) == IF HasPoint(s) THEN CHOOSE i \in 1..Len(s) : s[i] = "." ELSE Len(s) + 1

\* The decimal value of a float string, in hundredths.
Dec100(s) ==
    LET p == PointAt(s)
        frac == SubSeq(s, p + 1, Len(s))
    IN 100 * DigitsVal(SubSeq(s, 1, p - 1))
       + (CASE Len(frac) = 0 -> 0
            [] Len(frac) = 1 -> 10 * DigitVal(frac[1])
            [] Len(frac) = 2 -> DigitsVal(frac))

\* str(n) of a natural number.
RECURSIVE IntToStr(_)
IntToStr(n) ==
    LET d == <<"0", "1", "2", "3", "4", "5", "6", "7", "8", "9">>[(n % 10) + 1]
    IN IF n < 10 THEN <<d>> ELSE Append(IntToStr(n \div 10), d)

RECURSIVE Pow2Mod200(_)
Pow2Mod200(n) == IF n = 0 THEN 1 ELSE (2 * Pow2Mod200(n - 1)) % 200

\* 2^e <= q/100, for e of either sign.
AtLeastPow2(q, e) == IF e >= 0 THEN 100 * (2 ^ e) <= q ELSE q * (2 ^ (0 - e)) >= 100
IsPow2(q, e) == IF e >= 0 THEN 100 * (2 ^ e) = q ELSE q * (2 ^ (0 - e)) = 100

\* The binary exponent of the value q/100 + d*2^-59/100, q > 0.
Exponent(q, d) ==
    LET e == CHOOSE k \in (0 - 7)..16 : AtLeastPow2(q, k) /\ ~AtLeastPow2(q, k + 1)
    IN IF IsPow2(q, e) /\ d < 0 THEN e - 1 ELSE e

\* The exact value [q, d] rounded to the nearest double, ties to even.
Round53(q, d) ==
    IF q = 0 THEN [q |-> 0, d |-> 0]
    ELSE LET e == Exponent(q, d)
             ulp == 100 * (2 ^ (e + 7))
             a2 == ((q % 200) * Pow2Mod200(52 - e)) % 200
             t == (2 ^ (e + 7)) * (a2 % 100) + d
             r == t % ulp
             odd == ((a2 \div 100) + (t \div ulp)) % 2 = 1
         IN IF r < ulp - r \/ (r = ulp - r /\ ~odd)
            THEN [q |-> q, d |-> d - r]
            ELSE [q |-> q, d |-> d - r + ulp]

\* float(s) of a float string
FloatOfStr(s) == Round53(Dec100(s), 0)
FloatAdd(x, y) == Round53(x.q + y.q, x.d + y.d)
FloatMul(x, c) == Round53(x.q * c, x.d * c)
\* x - n for an integer n <= x: exact, nothing is rounded off
FloatSubInt(x, n) == [q |-> x.q - 100 * n, d |-> x.d]
\* int(x), x >= 0
FloatInt(x) == IF x.q % 100 = 0 /\ x.d < 0 THEN (x.q \div 100) - 1 ELSE x.q \div 100
FloatIsZero(x) == x.q = 0 /\ x.d = 0
\* x < n and x > n for an integer n
FloatLessInt(x, n) == x.q < 100 * n \/ (x.q = 100 * n /\ x.d < 0)
FloatGreaterInt(x, n) == x.q > 100 * n \/ (x.q = 100 * n /\ x.d > 0)
\* round(x): the nearest integer, halves to the even one
FloatRound(x) ==
    LET base == x.q \div 100
        rem == x.q % 100
    IN IF rem > 50 \/ (rem = 50 /\ x.d > 0) \/ (rem = 50 /\ x.d = 0 /\ base % 2 = 1)
       THEN base + 1
       ELSE base

(***************************************************************************)
(* Weights.  A returned weight is [num, ty]: num in hundredths (the double *)
(* nearest to num/100), ty the Python type of the number.                  *)
(***************************************************************************)
PyFloat(n) == [num |-> n, ty |-> "float"]
PyInt(n) == [num |-> 100 * n, ty |-> "int"]
\* An optional string (a regex group that may not take part in the match,
\* an argument that may be None): <<>> is None, <<s>> is the string s.
None == <<>>
Some(s) == <<s>>

\* (left_value - int(left_value)) * 10 < right_value
ContinuesLeft(left_value, right_value) ==
    FloatLessInt(FloatMul(FloatSubInt(left_value, FloatInt(left_value)), 10),
                 FloatInt(right_value))

\* calc_weight(left, right): left is a string, right an optional one;
\* float() raises ValueError on a string that is no number.  value / 2 is
\* exact in binary, so value * 100 is the sum times 50 rounded once.
calc_weight(left, right0) ==
    LET right == IF right0 = None THEN left ELSE right0[1]
        left_value == FloatOfStr(left)
        right_value == FloatOfStr(right)
        right_value2 ==
            IF ~HasPoint(right) /\ FloatGreaterInt(right_value, 4)
                 /\ ContinuesLeft(left_value, right_value)
            THEN FloatOfStr(IntToStr(FloatInt(left_value)) \o <<".">> \o right)
            ELSE right_value
    IN IF ~IsFloatStr(left) \/ ~IsFloatStr(right) THEN Raise("ValueError")
       ELSE IF FloatIsZero(left_value) THEN Return(PyFloat(100))
       ELSE Return(PyFloat(FloatRound(FloatMul(FloatAdd(left_value, right_value2), 50))))

(***************************************************************************)
(* The weight patterns.  Text positions are 1-based; an "end" is the index *)
(* of the last character taken.  re.IGNORECASE is the comparison of        *)
(* lower-cased characters.                                                 *)
(***************************************************************************)
FullwidthColon == "U+FF1A"
IsSpace(c) == c \in {" ", "\n"}
CharAt(s, i) == IF i >= 1 /\ i <= Len(s) THEN s[i] ELSE ""
IsDigitAt(s, i) == CharAt(s, i) \in Digits

\* s continues at position i with the literal lit, whatever the case.
MatchAt(s, i, lit) ==
    /\ i >= 1
    /\ i + Len(lit) - 1 <= Len(s)
    /\ \A j \in 1..Len(lit) : LowerChar(s[i + j - 1]) = LowerChar(lit[j])

\* re.sub(r'<--|-->', '', s) from position i on
RECURSIVE StripMarkersFrom(_, _)
StripMarkersFrom(s, i) ==
    IF i > Len(s) THEN <<>>
    ELSE IF MatchAt(s, i, <<"<", "-", "-">>) \/ MatchAt(s, i, <<"-", "-", ">">>)
         THEN StripMarkersFrom(s, i + 3)
    ELSE <<s[i]>> \o StripMarkersFrom(s, i + 1)

\* re.sub(r'<.*?>', ' ', s) from position i on: '.' matches no line break
TagEnds(s, i) ==
    {j \in (i + 1)..Len(s) : s[j] = ">" /\ \A k \in (i + 1)..(j - 1) : s[k] # "\n"}

RECURSIVE CookFrom(_, _)
CookFrom(s, i) ==
    IF i > Len(s) THEN <<>>
    ELSE IF s[i] = "<" /\ TagEnds(s, i) # {}
         THEN <<" ">> \o CookFrom(s, (CHOOSE j \in TagEnds(s, i) : \A j2 \in TagEnds(s, i) : j <= j2) + 1)
    ELSE <<s[i]>> \o CookFrom(s, i + 1)

\* \d+ from the digit at i: the end of the run of digits
RECURSIVE DigitRunEnd(_, _)
DigitRunEnd(s, i) == IF IsDigitAt(s, i + 1) THEN DigitRunEnd(s, i + 1) ELSE i

\* \d+(?:\.\d+)? from the digit at i, greedy
NumberEnd(s, i) ==
    LET e == DigitRunEnd(s, i)
    IN IF CharAt(s, e + 1) = "." /\ IsDigitAt(s, e + 2) THEN DigitRunEnd(s, e + 2) ELSE e

\* \s* from position i: the first position that holds no white space
RECURSIVE SkipSpaces(_, _)
SkipSpaces(s, i) == IF IsSpace(CharAt(s, i)) THEN SkipSpaces(s, i + 1) ELSE i

\* range_regexp from the digit at i, greedy: groups 1 and 2 and the end
RangeAt(s, i) ==
    LET e1 == NumberEnd(s, i)
        k == SkipSpaces(s, e1 + 1)
        seplen == IF CharAt(s, k) \in {"-", "~"} THEN 1
                  ELSE IF MatchAt(s, k, <<"t", "o">>) THEN 2
                  ELSE 0
        k2 == SkipSpaces(s, k + seplen)
    IN IF seplen = 0 THEN [g1 |-> SubSeq(s, i, e1), g2 |-> None, end |-> e1]
       ELSE IF IsDigitAt(s, k2)
            THEN [g1 |-> SubSeq(s, i, e1), g2 |-> Some(SubSeq(s, k2, NumberEnd(s, k2))),
                  end |-> NumberEnd(s, k2)]
       ELSE [g1 |-> SubSeq(s, i, e1), g2 |-> None, end |-> k2 - 1]

NoMatch == [found |-> FALSE, g1 |-> <<>>, g2 |-> <<>>, span |-> <<>>]
Match(s, from, g1, g2, end) ==
    [found |-> TRUE, g1 |-> g1, g2 |-> g2, span |-> SubSeq(s, from, end)]

\* weight_regexps[0], instantiated for name, tried at position i
LoraStarts(s, i) ==
    (IF MatchAt(s, i, <<"<">>) THEN {i + 1} ELSE {})
    \cup (IF MatchAt(s, i, <<"&", "l", "t", ";">>) THEN {i + 4} ELSE {})

LoraAt(s, i, name) ==
    LET heads == {p + 5 + Len(name) + 1 : p \in
                    {p \in LoraStarts(s, i) :
                        /\ MatchAt(s, p, <<"l", "o", "r", "a", ":">>)
                        /\ MatchAt(s, p + 5, name)
                        /\ MatchAt(s, p + 5 + Len(name), <<":">>)
                        /\ IsDigitAt(s, p + 5 + Len(name) + 1)}}
    IN IF heads = {} THEN NoMatch
       ELSE LET n == CHOOSE h \in heads : TRUE
                e == NumberEnd(s, n)
                dummy == MatchAt(s, e + 1, <<"d", "u", "m", "m", "y">>)
                c == IF dummy THEN e + 6 ELSE e + 1
                g2 == IF dummy THEN Some(SubSeq(s, e + 1, e + 5)) ELSE None
            IN IF MatchAt(s, c, <<">">>) THEN Match(s, i, SubSeq(s, n, e), g2, c)
               ELSE IF MatchAt(s, c, <<"&", "g", "t", ";">>) THEN Match(s, i, SubSeq(s, n, e), g2, c + 3)
               ELSE NoMatch

\* antecedent_regexp from position i: the positions at which it can end
\* (white space is taken greedily: what follows a \s* is never white space)
AnteHeads(s, i) ==
    {i + Len(h) : h \in {h \in {<<"w", "e", "i", "g", "h", "t", " ", "v", "a", "l", "u", "e">>,
                                 <<"w", "e", "i", "g", "h", "t">>,
                                 <<"a", "p", "p", "l", "y">>,
                                 <<"s", "t", "r", "e", "n", "g", "t", "h">>} : MatchAt(s, i, h)}}

AnteWords == {<<"a", "r", "o", "u", "n", "d">>, <<"o", "f">>, <<"f", "r", "o", "m">>,
              <<"i", "s">>, <<"i", "s", " ", "b", "e", "t", "w", "e", "e", "n">>, <<>>}

AnteEnds(s, i) ==
    LET h1 == AnteHeads(s, i)
        h2 == h1 \cup {p + 1 : p \in {p \in h1 : MatchAt(s, p, <<"s">>)}}
        h3 == {SkipSpaces(s, p) : p \in h2}
        h4 == h3 \cup {p + 1 : p \in {p \in h3 : CharAt(s, p) \in {":", FullwidthColon}}}
        h5 == {SkipSpaces(s, p) : p \in h4}
        h6 == UNION {{p + Len(w) : w \in {w \in AnteWords : MatchAt(s, p, w)}} : p \in h5}
        useit == IF MatchAt(s, i, <<"u", "s", "e", " ", "i", "t">>) THEN {i + 6} ELSE {}
    IN {SkipSpaces(s, p) : p \in h6 \cup useit}

DoNotUseA == <<"d", "o", " ", "n", "o", "t", " ", "u", "s", "e", " ", "a", " ">>

\* weight_regexps[1] tried at position i
AntecedentAt(s, i) ==
    LET starts == {p \in AnteEnds(s, i) : IsDigitAt(s, p)}
    IN IF MatchAt(s, i - Len(DoNotUseA), DoNotUseA) \/ starts = {} THEN NoMatch
       ELSE LET r == RangeAt(s, CHOOSE p \in starts : TRUE)
            IN Match(s, i, r.g1, r.g2, r.end)

\* weight_regexps[2] tried at position i
SubsequentAt(s, i) ==
    IF ~IsDigitAt(s, i) THEN NoMatch
    ELSE LET r == RangeAt(s, i)
             k == SkipSpaces(s, r.end + 1)
         IN IF ~MatchAt(s, k, <<"w", "e", "i", "g", "h", "t">>) THEN NoMatch
            ELSE Match(s, i, r.g1, r.g2, IF MatchAt(s, k + 6, <<"s">>) THEN k + 6 ELSE k + 5)

\* Pattern n of weight_regexps (1..3), slot 1 instantiated for name, at i
PatternAt(n, name, s, i) ==
    CASE n = 1 -> LoraAt(s, i, name)
      [] n = 2 -> AntecedentAt(s, i)
      [] n = 3 -> SubsequentAt(s, i)

\* The match of least index among the candidates [i, m] that found one
Leftmost(candidates) ==
    IF candidates = {} THEN NoMatch
    ELSE (CHOOSE h \in candidates : \A h2 \in candidates : h.i <= h2.i).m

\* re.search(weight_regexps[n], s, re.IGNORECASE): the leftmost match
Search(n, name, s) ==
    Leftmost({h \in {[i |-> i, m |-> PatternAt(n, name, s, i)] : i \in 1..Len(s)} : h.m.found})

RawDescription(input_description) == StripMarkersFrom(input_description, 1)
CookedDescription(input_description) == CookFrom(RawDescription(input_description), 1)

NotApplicable == <<"N", "/", "A">>
FromMetadata == <<"m", "e", "t", "a", "d", "a", "t", "a">>

\* A variant of the fallback with no weight at all.
NoWeightFound_zero == Return(<<PyInt(0), NotApplicable>>)

\* return 1, 'N/A'
NoWeightFound == Return(<<PyInt(1), NotApplicable>>)

\* A variant of the loops that tries the cooked text before the raw one.
FirstAttempt_cooked_first(name, raw_description, cooked_description) ==
    Leftmost({h \in {[i |-> k,
                      m |-> Search((k + 1) \div 2, name,
                                   IF k % 2 = 1 THEN cooked_description ELSE raw_description)] :
                        k \in 1..6} : h.m.found})

\* The loops of get_weight_from_description: the patterns in the outer
\* loop, the raw text before the cooked one in the inner loop.  Attempt k
\* of 1..6 is pattern (k + 1) \div 2 on the raw text for an odd k and on the
\* cooked text for an even k; the first attempt that matches decides.
FirstAttempt(name, raw_description, cooked_description) ==
    Leftmost({h \in {[i |-> k,
                      m |-> Search((k + 1) \div 2, name,
                                   IF k % 2 = 1 THEN raw_description ELSE cooked_description)] :
                        k \in 1..6} : h.m.found})

\* return calc_weight(*match.group(1, 2)), match.group(0)
Weighted(w, span) == IF w.k = "raise" THEN w ELSE Return(<<w.v, span>>)

WeightOf(match) ==
    IF ~match.found THEN NoWeightFound
    ELSE Weighted(calc_weight(match.g1, match.g2), match.span)

\* get_weight_from_description(name, input_description) on a str
get_weight_from_description(name, input_description) ==
    WeightOf(FirstAttempt(name, RawDescription(input_description),
                          CookedDescription(input_description)))

\* float(x) of a JSON value taken from the preferred-weight field
FloatOfJson(x) ==
    CASE x.t = "str" -> IF IsFloatStr(x.v) THEN Return(PyFloat(Dec100(x.v))) ELSE Raise("ValueError")
      [] x.t = "num" -> Return(PyFloat(x.v))
      [] OTHER -> Raise("TypeError")

\* A variant of get_weight that takes the field whenever it is not empty.
get_weight_any_field(name, metadata) ==
    LET weight == get_weight_from_metadata(metadata)
        description == get_description(metadata)
    IN IF weight.k = "raise" THEN weight
       ELSE IF Truthy(weight.v)
            THEN LET f == FloatOfJson(weight.v)
                 IN IF f.k = "raise" THEN f ELSE Return(<<f.v, FromMetadata>>)
       ELSE IF description.k = "raise" THEN description
       ELSE IF description.v.t # "str" THEN Raise("TypeError")
       ELSE get_weight_from_description(name, description.v.v)

\* get_weight(name, metadata); re.sub raises TypeError on a description
\* that is no str.
get_weight(name, metadata) ==
    LET weight == get_weight_from_metadata(metadata)
        description == get_description(metadata)
    IN IF weight.k = "raise" THEN weight
       ELSE IF Truthy(weight.v) /\ ~JEq(weight.v, JStr(<<"0">>))
            THEN LET f == FloatOfJson(weight.v)
                 IN IF f.k = "raise" THEN f ELSE Return(<<f.v, FromMetadata>>)
       ELSE IF description.k = "raise" THEN description
       ELSE IF description.v.t # "str" THEN Raise("TypeError")
       ELSE get_weight_from_description(name, description.v.v)


\* weight_regexps after get_weight(name, metadata): the description search
\* rewrites slot 0 for name once re.sub has accepted the description.
weight_regexps_after(name, metadata, regexps) ==
    LET weight == get_weight_from_metadata(metadata)
        description == get_description(metadata)
    IN IF weight.k = "raise" THEN regexps
       ELSE IF Truthy(weight.v) /\ ~JEq(weight.v, JStr(<<"0">>)) THEN regexps
       ELSE IF description.k = "raise" THEN regexps
       ELSE IF description.v.t # "str" THEN regexps
       ELSE [regexps EXCEPT ![1] = [kind |-> "lora", name |-> name]]

(***************************************************************************)
(* The metadata reader                                                     *)
(*                                                                         *)
(* fs[name] gives, for each suffix of readers, what lies beside the model  *)
(* file: [st |-> "absent"], [st |-> "malformed"] (no JSON, or a header     *)
(* whose length prefix cannot be read) or [st |-> "json", data |-> value]. *)
(* The entry "safetensors" is the model file itself: its JSON header.      *)
(***************************************************************************)
\* readers with the generic .json file read first
readers_json_first == <<"json", "civitai.info", "cm-info.json", "safetensors">>

readers == <<"civitai.info", "cm-info.json", "json", "safetensors">>

Absent == [st |-> "absent", data |-> JNull]
Malformed == [st |-> "malformed", data |-> JNull]
Json(d) == [st |-> "json", data |-> d]

\* A variant of Reader that reads a file it cannot parse as an empty record
Reader_lenient(suffix, content) ==
    IF content.st = "malformed" THEN Return(JMap(<<>>))
    ELSE IF suffix = "safetensors"
         THEN Return(DictGet(content.data.v, "__metadata__", JNull))
         ELSE Return(content.data)

\* read_from_json / read_from_safetensors on an existing file
Reader(suffix, content) ==
    IF content.st = "malformed"
    THEN Raise(IF suffix = "safetensors" THEN "struct.error" ELSE "JSONDecodeError")
    ELSE IF suffix = "safetensors"
         THEN Return(DictGet(content.data.v, "__metadata__", JNull))
         ELSE Return(content.data)

\* The loop of get_metadata_list from reader i on; result is the list so far.
RECURSIVE MetadataFrom(_, _, _)
MetadataFrom(files, i, result) ==
    IF i > Len(readers) THEN Return(result)
    ELSE IF files[readers[i]].st = "absent" THEN MetadataFrom(files, i + 1, result)
    ELSE LET metadata == Reader(readers[i], files[readers[i]])
         IN IF metadata.k = "raise" THEN metadata
            ELSE IF Truthy(metadata.v) THEN MetadataFrom(files, i + 1, Append(result, metadata.v.v))
            ELSE MetadataFrom(files, i + 1, result)

\* get_metadata_list(target, hints): target is the file name, files what
\* lies beside it.
get_metadata_list(target, files, hint_table) ==
    MetadataFrom(files, 1, <<DictGet(hint_table, target, <<>>)>>)

(***************************************************************************)
(* The override-list pass (--jinja)                                        *)
(***************************************************************************)
HeaderLine == [kind |-> "header", result |-> "", modelname |-> <<>>]
FooterLine == [kind |-> "footer", result |-> "", modelname |-> <<>>]
SetLine(code, name) == [kind |-> "set", result |-> code, modelname |-> name]

\* A variant of override_list_file that prints the inferred code.
override_list_file_inferred(target, files, hint_table) ==
    LET metadata_list == get_metadata_list(target, files, hint_table)
        actual_base_model == get_base_model(metadata_list.v)
        inferred_base_model == get_base_model_from_name(target)
    IN IF metadata_list.k = "raise" THEN [k |-> "raise", lines |-> <<>>, warnings |-> <<>>]
       ELSE IF actual_base_model.k = "raise" THEN [k |-> "raise", lines |-> <<>>, warnings |-> <<>>]
       ELSE [k |-> "return",
             lines |-> IF actual_base_model.v # inferred_base_model
                       THEN <<SetLine(inferred_base_model, target)>> ELSE <<>>,
             warnings |-> IF actual_base_model.v = "unkn" THEN <<target>> ELSE <<>>]

\* A variant of override_list_file that prints nothing for an undetected
\* base model.
override_list_file_skip_unkn(target, files, hint_table) ==
    LET metadata_list == get_metadata_list(target, files, hint_table)
        actual_base_model == get_base_model(metadata_list.v)
        inferred_base_model == get_base_model_from_name(target)
    IN IF metadata_list.k = "raise" THEN [k |-> "raise", lines |-> <<>>, warnings |-> <<>>]
       ELSE IF actual_base_model.k = "raise" THEN [k |-> "raise", lines |-> <<>>, warnings |-> <<>>]
       ELSE [k |-> "return",
             lines |-> IF actual_base_model.v # inferred_base_model /\ actual_base_model.v # "unkn"
                       THEN <<SetLine(actual_base_model.v, target)>> ELSE <<>>,
             warnings |-> IF actual_base_model.v = "unkn" THEN <<target>> ELSE <<>>]

\* override_list_file(target, output_stream, hints): the lines it prints and
\* the warnings it logs; an exception of the reader or of the classifier
\* leaves the function before anything is printed.
override_list_file(target, files, hint_table) ==
    LET metadata_list == get_metadata_list(target, files, hint_table)
        actual_base_model == get_base_model(metadata_list.v)
        inferred_base_model == get_base_model_from_name(target)
    IN IF metadata_list.k = "raise" THEN [k |-> "raise", lines |-> <<>>, warnings |-> <<>>]
       ELSE IF actual_base_model.k = "raise" THEN [k |-> "raise", lines |-> <<>>, warnings |-> <<>>]
       ELSE [k |-> "return",
             lines |-> IF actual_base_model.v # inferred_base_model
                       THEN <<SetLine(actual_base_model.v, target)>> ELSE <<>>,
             warnings |-> IF actual_base_model.v = "unkn" THEN <<target>> ELSE <<>>]

(***************************************************************************)
(* The name normaliser.  A position is the index of the next character to  *)
(* read; a pattern is followed as the set of positions it can reach.  The  *)
(* names of the model hold no line break, so `$` is the end of the name.   *)
(***************************************************************************)
\* The literal alternatives of pattern_main
MainWords == {<<"i", "l", "l", "u", "s", "t", "r", "i", "o", "u", "s">>,
              <<"p", "d", "x", "l">>, <<"p", "o", "n", "y">>,
              <<"p", "o", "n", "y", "x", "l">>, <<"s", "d", "x", "l">>,
              <<"p", "x", "l">>, <<"x", "l">>, <<"i", "s">>, <<"i", "l">>, <<"p", "6">>}

NameDelims == {"-", "_", ".", " "}
MidDelims == {"-", "_", "."}
SpecialChars == {"?", ":", ",", "[", "]", "{", "}", "#", "&", "*", "!", "|", ">"}
RunChars == {"-", "_", " "}

\* \d, [a-z], v and \. under re.IGNORECASE
InClass(cls, c) ==
    CASE cls = "digit" -> c \in Digits
      [] cls = "alpha" -> \E i \in 1..Len(LowerCase) : c = LowerCase[i] \/ c = UpperCase[i]
      [] cls = "v" -> c \in {"v", "V"}
      [] cls = "dot" -> c = "."

\* One character of the class, from any position of P
Take(s, P, cls) ==
    UNION {{p + 1 : p \in {p \in from : p <= Len(s) /\ InClass(cls, s[p])}} : from \in {P}}

\* Any number of characters of the class, from any position of P
Run(s, P, cls) ==
    UNION {{q \in 1..(Len(s) + 1) : \E p \in from : p <= q /\ \A k \in p..(q - 1) : InClass(cls, s[k])} :
              from \in {P}}

\* One of the literal words
WordEnds(s, P) == UNION {{p + Len(w) : w \in {w \in MainWords : MatchAt(s, p, w)}} : p \in P}

\* v?\d+ and what may follow: (\.\d+)?[a-z]?
NumberTail(s, P) ==
    UNION {whole \cup Take(s, whole, "alpha") :
              whole \in {from \cup Run(s, Take(s, Take(s, from, "dot"), "digit"), "digit") : from \in {P}}}

VersionEnds(s, P) == NumberTail(s, Run(s, Take(s, P \cup Take(s, P, "v"), "digit"), "digit"))

\* v\d+[a-z]+\d+
BuildEnds(s, P) ==
    Run(s, Take(s, Run(s, Take(s, Run(s, Take(s, Take(s, P, "v"), "digit"), "digit"),
                               "alpha"), "alpha"), "digit"), "digit")

\* pattern_main from any position of P
MainEnds(s, P) == WordEnds(s, P) \cup VersionEnds(s, P) \cup BuildEnds(s, P)

\* pattern_at_end matches from position i to the end of the name
EndsAt(s, i) ==
    \/ s[i] \in NameDelims /\ (Len(s) + 1) \in MainEnds(s, {i + 1})
    \/ s[i] = "(" /\ s[Len(s)] = ")" /\ Len(s) \in MainEnds(s, {i + 1})

\* re.subn(pattern_at_end, '', name) repeated while it substitutes: the
\* leftmost match is cut off
RECURSIVE StripAtEnd(_)
CutAtEnd(s, starts) ==
    IF starts = {} THEN s
    ELSE StripAtEnd(SubSeq(s, 1, (CHOOSE i \in starts : \A i2 \in starts : i <= i2) - 1))

StripAtEnd(s) == CutAtEnd(s, {i \in 1..Len(s) : EndsAt(s, i)})

\* pattern_at_mid from position i: the positions of the closing delimiter.
\* Only '.' can occur inside pattern_main, in (\.\d+)?; the greedy group
\* makes the farthest closing delimiter the match.
MidClosers(s, i) ==
    IF s[i] \notin MidDelims THEN {}
    ELSE {j \in Run(s, MainEnds(s, {i + 1}), "digit") : j <= Len(s) /\ s[j] = s[i]}

Farthest(closers) == CHOOSE j \in closers : \A j2 \in closers : j >= j2

\* One re.subn(pattern_at_mid, r'\1', name) from position pos on: the
\* matches are taken from left to right and do not overlap
RECURSIVE CollapseMidFrom(_, _)
CollapseMidCut(s, pos, i) ==
    SubSeq(s, pos, i) \o CollapseMidFrom(s, Farthest(MidClosers(s, i)) + 1)

CollapseMidAt(s, pos, starts) ==
    IF starts = {} THEN SubSeq(s, pos, Len(s))
    ELSE CollapseMidCut(s, pos, CHOOSE i \in starts : \A i2 \in starts : i <= i2)

CollapseMidFrom(s, pos) == CollapseMidAt(s, pos, {i \in pos..Len(s) : MidClosers(s, i) # {}})

\* The second loop: repeated while a pass substitutes (a substitution
\* shortens the name)
RECURSIVE CollapseAtMid(_)
CollapseMidAgain(s, collapsed) == IF collapsed = s THEN s ELSE CollapseAtMid(collapsed)

CollapseAtMid(s) == CollapseMidAgain(s, CollapseMidFrom(s, 1))

\* re.sub(r'^\s*-', '', name)
StripLeadingHyphen(s) ==
    IF CharAt(s, SkipSpaces(s, 1)) = "-" THEN SubSeq(s, SkipSpaces(s, 1) + 1, Len(s)) ELSE s

\* re.sub(r'[?:,[\]{}#&*!|>]', '', name)
IsPlainChar(c) == c \notin SpecialChars
StripSpecial(s) == SelectSeq(s, IsPlainChar)

\* re.sub(r'([-_ ])\1+', r'\1', name)
RECURSIVE CollapseRunsFrom(_, _)
CollapseRunsFrom(s, i) ==
    IF i > Len(s) THEN <<>>
    ELSE IF i > 1 /\ s[i] \in RunChars /\ s[i] = s[i - 1] THEN CollapseRunsFrom(s, i + 1)
    ELSE <<s[i]>> \o CollapseRunsFrom(s, i + 1)

\* A variant of get_normalized_name that strips the special characters and
\* the repeated delimiters before the tags.
get_normalized_name_cleaned_first(name) ==
    Strip(StripLeadingHyphen(CollapseAtMid(StripAtEnd(CollapseRunsFrom(StripSpecial(name), 1)))))

\* get_normalized_name(name)
get_normalized_name(name) ==
    Strip(CollapseRunsFrom(StripSpecial(StripLeadingHyphen(CollapseAtMid(StripAtEnd(name)))), 1))

(***************************************************************************)
(* The YAML passes (--list, --variant, --check-place) and the summary.     *)
(*                                                                         *)
(* A Path is [parent |-> the sequence of directory names, name |-> the     *)
(* file name].  A dict is a function; a written YAML file is the document  *)
(* it holds: a mapping, whose key order YAML does not define, of lists in  *)
(* their written order.                                                    *)
(***************************************************************************)
\* Path.stem: the name without its last suffix
LastDot(name) ==
    IF \E i \in 2..(Len(name) - 1) : name[i] = "."
    THEN CHOOSE i \in 2..(Len(name) - 1) :
            name[i] = "." /\ \A j \in (i + 1)..(Len(name) - 1) : name[j] # "."
    ELSE Len(name) + 1

Stem(name) == SubSeq(name, 1, LastDot(name) - 1)

\* d.setdefault(key, []).append(item)
SetDefaultAppend(d, key, item) ==
    IF key \in DOMAIN d THEN [d EXCEPT ![key] = Append(@, item)] ELSE d @@ (key :> <<item>>)

\* d.setdefault(key, {})
SetDefaultMap(d, key) == IF key \in DOMAIN d THEN d[key] ELSE <<>>

\* d[key] = value
DictSet(d, key, value) == [k \in DOMAIN d \cup {key} |-> IF k = key THEN value ELSE d[k]]

\* Where get_value(metadata, keys_list) finds its value: the first pair of
\* key-path index and record index, key-paths first, that holds a non-empty
\* value (the key-paths of the callers below are single keys: no descent
\* can raise)
FirstHit(metadata, keys_list) ==
    LET Hits == {h \in (1..Len(keys_list)) \X (1..Len(metadata)) :
                    Truthy(get_recursive(metadata[h[2]], keys_list[h[1]]).v)}
    IN IF Hits = {} THEN <<0, 0>>
       ELSE CHOOSE h \in Hits : \A h2 \in Hits : h[1] < h2[1] \/ (h[1] = h2[1] /\ h[2] <= h2[2])

\* keywords.insert(0, '') when the list get_keywords returned is the list a
\* record holds: the record afterwards
InsertedIn(record, key) == [record EXCEPT ![key] = JList(<<EmptyStr>> \o @.v)]

\* The hints after the keywords.insert(0, '') of yaml_fragment_read_file: a
\* list found in the hint record (element 0 of the metadata list, the very
\* object hints holds for the file name) is the list that grows
hints_after_insert(name, metadata_list, hint_table) ==
    LET hit == FirstHit(metadata_list, keyword_keys)
    IN IF /\ name \in DOMAIN hint_table
          /\ hit[2] = 1
          /\ metadata_list[1][keyword_keys[hit[1]][1]].t = "list"
       THEN [hint_table EXCEPT ![name] = InsertedIn(@, keyword_keys[hit[1]][1])]
       ELSE hint_table

\* ', '.join(keywords) needs every item to be a str
Joinable(keywords) == \A i \in 1..Len(keywords) : keywords[i].t = "str"

\* re.sub(r'[\r\n]+', '', source)
IsNoLineBreak(c) == c # "\n"
RemoveLinebreaks(source) == SelectSeq(source, IsNoLineBreak)

\* The leaf line f'<lora:{stem}:{weight}>{keywords_str} # {title} [[{source}]]'
\* as the values it is formatted from; keywords is the list that is joined,
\* the leading '' included
LeafLine(stem, weight, keywords, title, source) ==
    [stem |-> stem, weight |-> weight, keywords |-> keywords, title |-> title, source |-> source]

\* The description line of yaml_fragment_read_file, from the outcomes of
\* get_title, get_weight and get_keywords
DescriptionLine(stem, title, weight, keywords) ==
    LeafLine(stem, weight.v[1],
             IF keywords.v = <<>> THEN <<>> ELSE <<EmptyStr>> \o keywords.v,
             title.v, RemoveLinebreaks(weight.v[2]))

\* How far yaml_fragment_read_file gets before the description line is
\* stored: "title", "weight", "keywords", "join" name the call that raises
LineStage(title, weight, keywords) ==
    IF title.k = "raise" THEN "title"
    ELSE IF weight.k = "raise" THEN "weight"
    ELSE IF keywords.k = "raise" THEN "keywords"
    ELSE IF ~Joinable(keywords.v) THEN "join"
    ELSE "stored"

NoName == JStr(<<"_", "_", "n", "o", "n", "a", "m", "e", "_", "_">>)

\* creator = get_creator(metadata_list) or '__noname__'; a list or a mapping
\* cannot be a dictionary key
CreatorOf(metadata_list) ==
    LET creator == get_creator(metadata_list)
    IN IF creator.k = "raise" THEN creator
       ELSE IF ~Truthy(creator.v) THEN Return(NoName)
       ELSE IF creator.v.t \in {"list", "map"} THEN Raise("TypeError")
       ELSE creator

\* result[1].setdefault(creator, {}).setdefault(normalized_name, {})
\*          .setdefault(actual_base_model, []).append(target)
VariantAdded(variant, creator, normalized_name, actual_base_model, target) ==
    DictSet(variant, creator,
            DictSet(SetDefaultMap(variant, creator), normalized_name,
                    SetDefaultAppend(SetDefaultMap(SetDefaultMap(variant, creator), normalized_name),
                                     actual_base_model, target)))

\* result[3].setdefault((creator, normalized_name), set()).add(target.parent)
PlaceAdded(place, creator, normalized_name, parent) ==
    DictSet(place, <<creator, normalized_name>>,
            (IF <<creator, normalized_name>> \in DOMAIN place
             THEN place[<<creator, normalized_name>>] ELSE {}) \cup {parent})

\* What yaml_fragment_read_file leaves behind: whether it returned, the
\* fragment, the hints and weight_regexps
FileRead(k, fr, hint_table, regexps) ==
    [k |-> k, fragment |-> fr, hints |-> hint_table, weight_regexps |-> regexps]

\* yaml_fragment_read_file from `if want_variant:` on, the creator and the
\* normalized name computed
ReadVariant(target, fr, check_place, hint_table, regexps, actual_base_model, creator, normalized_name) ==
    IF creator.k = "raise" THEN FileRead("raise", fr, hint_table, regexps)
    ELSE FileRead("return",
                  [fr EXCEPT ![2] = VariantAdded(@, creator.v, normalized_name,
                                                 actual_base_model, target),
                             ![4] = IF check_place
                                    THEN PlaceAdded(@, creator.v, normalized_name, target.parent)
                                    ELSE @],
                  hint_table, regexps)

ReadGrouped(target, fr, want_variant, check_place, hint_table, regexps, metadata_list, actual_base_model) ==
    IF ~want_variant THEN FileRead("return", fr, hint_table, regexps)
    ELSE ReadVariant(target, fr, check_place, hint_table, regexps, actual_base_model,
                     CreatorOf(metadata_list), get_normalized_name(Stem(target.name)))

\* ReadDescribed without the assignment result[2][target] = ...
ReadDescribed_line_not_stored(target, fr, want_variant, check_place, hint_table, regexps, metadata_list, actual_base_model, title, weight, keywords, weight_name) ==
    IF LineStage(title, weight, keywords) # "stored"
    THEN FileRead("raise", fr, hint_table, regexps)
    ELSE ReadGrouped(target, fr, want_variant, check_place,
                     hints_after_insert(target.name, metadata_list, hint_table),
                     weight_regexps_after(weight_name, metadata_list, regexps),
                     metadata_list, actual_base_model)

\* yaml_fragment_read_file from get_title on; title, weight and keywords
\* are the outcomes of the three calls.  get_weight has rewritten
\* weight_regexps[0] once get_title has returned, keywords.insert has run
\* once get_keywords has returned.
ReadDescribed(target, fr, want_variant, check_place, hint_table, regexps, metadata_list, actual_base_model, title, weight, keywords, weight_name) ==
    IF LineStage(title, weight, keywords) = "title"
    THEN FileRead("raise", fr, hint_table, regexps)
    ELSE IF LineStage(title, weight, keywords) \in {"weight", "keywords"}
         THEN FileRead("raise", fr, hint_table,
                       weight_regexps_after(weight_name, metadata_list, regexps))
    ELSE IF LineStage(title, weight, keywords) = "join"
         THEN FileRead("raise", fr,
                       hints_after_insert(target.name, metadata_list, hint_table),
                       weight_regexps_after(weight_name, metadata_list, regexps))
    ELSE ReadGrouped(target,
                     [fr EXCEPT ![3] = DictSet(@, target,
                                               DescriptionLine(Stem(target.name), title,
                                                               weight, keywords))],
                     want_variant, check_place,
                     hints_after_insert(target.name, metadata_list, hint_table),
                     weight_regexps_after(weight_name, metadata_list, regexps),
                     metadata_list, actual_base_model)

\* ReadClassified filing every file under the code the first file got
ReadClassified_first_code_sticks(target, fr, want_variant, check_place, hint_table, regexps, metadata_list, actual_base_model, weight_name) ==
    IF actual_base_model.k = "raise" THEN FileRead("raise", fr, hint_table, regexps)
    ELSE ReadDescribed(target,
                       [fr EXCEPT ![1] = SetDefaultAppend(@, IF DOMAIN fr[1] = {}
                                                             THEN actual_base_model.v
                                                             ELSE CHOOSE c \in DOMAIN fr[1] : TRUE,
                                                          target)],
                       want_variant, check_place, hint_table, regexps, metadata_list,
                       actual_base_model.v, get_title(metadata_list),
                       get_weight(weight_name, metadata_list), get_keywords(metadata_list),
                       weight_name)

\* yaml_fragment_read_file from get_base_model on
ReadClassified(target, fr, want_variant, check_place, hint_table, regexps, metadata_list, actual_base_model, weight_name) ==
    IF actual_base_model.k = "raise" THEN FileRead("raise", fr, hint_table, regexps)
    ELSE ReadDescribed(target,
                       [fr EXCEPT ![1] = SetDefaultAppend(@, actual_base_model.v, target)],
                       want_variant, check_place, hint_table, regexps, metadata_list,
                       actual_base_model.v, get_title(metadata_list),
                       get_weight(weight_name, metadata_list), get_keywords(metadata_list),
                       weight_name)

ReadLoaded(target, fr, want_variant, check_place, hint_table, regexps, metadata_list, weight_name) ==
    IF metadata_list.k = "raise" THEN FileRead("raise", fr, hint_table, regexps)
    ELSE ReadClassified(target, fr, want_variant, check_place, hint_table, regexps,
                        metadata_list.v, get_base_model(metadata_list.v), weight_name)

\* yaml_fragment_read_file(target, result, want_variant, check_place, hints);
\* files is what lies beside target, fr the tuple `result`.  The weight is
\* looked up under target.name.
yaml_fragment_read_file(target, files, fr, want_variant, check_place, hint_table, regexps) ==
    ReadLoaded(target, fr, want_variant, check_place, hint_table, regexps,
               get_metadata_list(target.name, files, hint_table), target.name)

\* check_place(variants): one warning for each group found in several places
check_place(place) ==
    {group \in DOMAIN place : Cardinality(place[group]) > 1}

\* lora_desc[lora] for each lora of the list
Described(loras, lora_desc) == [i \in 1..Len(loras) |-> lora_desc[loras[i]]]

\* yaml_fragment_list(data, lora_desc, output, root): the document written,
\* or the KeyError of a lookup lora_desc[lora] that misses
yaml_fragment_list(data, lora_desc, root) ==
    IF \E basemodel \in DOMAIN data : \E i \in 1..Len(data[basemodel]) :
            data[basemodel][i] \notin DOMAIN lora_desc
    THEN Raise("KeyError")
    ELSE Return([root |-> root,
                 body |-> [basemodel \in DOMAIN data |-> Described(data[basemodel], lora_desc)]])

\* The groups (creator, variant_base) of the variant structure
Groups(data) == {g \in (DOMAIN data) \X (UNION {DOMAIN data[c] : c \in DOMAIN data}) :
                    g[2] \in DOMAIN data[g[1]]}

\* The groups yaml_fragment_variant prints: len(variants) > 1
VariantGroups(data) == {g \in Groups(data) : Cardinality(DOMAIN data[g[1]][g[2]]) > 1}

\* yaml_fragment_variant(data, lora_desc, output, root)
yaml_fragment_variant(data, lora_desc, root) ==
    IF \E g \in VariantGroups(data) : \E basemodel \in DOMAIN data[g[1]][g[2]] :
            \E i \in 1..Len(data[g[1]][g[2]][basemodel]) :
                data[g[1]][g[2]][basemodel][i] \notin DOMAIN lora_desc
    THEN Raise("KeyError")
    ELSE Return([root |-> root,
                 body |-> [g \in VariantGroups(data) |->
                              [basemodel \in DOMAIN data[g[1]][g[2]] |->
                                  Described(data[g[1]][g[2]][basemodel], lora_desc)]]])

\* The groups yaml_fragment_singular prints, len(variants) <= 1, and the
\* creators it prints a key for
SingularGroups(data) == {g \in Groups(data) : Cardinality(DOMAIN data[g[1]][g[2]]) <= 1}
SingularCreators(data) == {g[1] : g \in SingularGroups(data)}

\* A variant of yaml_fragment_singular that prints every group
yaml_fragment_singular_every_group(data, lora_desc, root) ==
    IF \E g \in Groups(data) : \E basemodel \in DOMAIN data[g[1]][g[2]] :
            \E i \in 1..Len(data[g[1]][g[2]][basemodel]) :
                data[g[1]][g[2]][basemodel][i] \notin DOMAIN lora_desc
    THEN Raise("KeyError")
    ELSE Return([root |-> root,
                 body |-> [creator \in DOMAIN data |->
                              [variant_base \in DOMAIN data[creator] |->
                                  [basemodel \in DOMAIN data[creator][variant_base] |->
                                      Described(data[creator][variant_base][basemodel], lora_desc)]]]])

\* yaml_fragment_singular(data, lora_desc, output, root): the groups under
\* the key of their creator
yaml_fragment_singular(data, lora_desc, root) ==
    IF \E g \in SingularGroups(data) : \E basemodel \in DOMAIN data[g[1]][g[2]] :
            \E i \in 1..Len(data[g[1]][g[2]][basemodel]) :
                data[g[1]][g[2]][basemodel][i] \notin DOMAIN lora_desc
    THEN Raise("KeyError")
    ELSE Return([root |-> root,
                 body |-> [creator \in SingularCreators(data) |->
                              [variant_base \in {g[2] : g \in {h \in SingularGroups(data) : h[1] = creator}} |->
                                  [basemodel \in DOMAIN data[creator][variant_base] |->
                                      Described(data[creator][variant_base][basemodel], lora_desc)]]]])

\* ', '.join(get_keywords(metadata_list))
JoinedKeywords(metadata_list) ==
    LET keywords == get_keywords(metadata_list)
    IN IF keywords.k = "raise" THEN keywords
       ELSE IF ~Joinable(keywords.v) THEN Raise("TypeError")
       ELSE keywords

\* The f-string of a logging.debug call is formatted whatever the level:
\* fn (get_base_model or get_description) is called on each record
Outcomes(metadata_list, fn(_)) == {fn(<<metadata_list[i]>>) : i \in 1..Len(metadata_list)}
EachRecord(outcomes) ==
    IF \E o \in outcomes : o.k = "raise" THEN CHOOSE o \in outcomes : o.k = "raise"
    ELSE Return(JNull)

BaseModels(name, metadata_list) ==
    LET actual == get_base_model(metadata_list)
    IN IF actual.k = "raise" THEN actual
       ELSE Return(<<get_base_model_from_name(name), actual.v>>)

\* The statements of summary_file after get_metadata_list, in order: what
\* each one prints, or the exception it raises.  The weight is looked up
\* under target.stem.
SummaryKinds == <<"filename", "title", "weight", "keywords", "creator", "basemodel", "debug",
                  "description", "debug">>

SummarySteps(target, metadata_list) ==
    <<Return(target),
      get_title(metadata_list),
      get_weight(Stem(target.name), metadata_list),
      JoinedKeywords(metadata_list),
      get_creator(metadata_list),
      BaseModels(target.name, metadata_list),
      EachRecord(Outcomes(metadata_list, get_base_model)),
      get_description(metadata_list),
      EachRecord(Outcomes(metadata_list, get_description))>>

IsPrinted(line) == line.kind # "debug"

\* The lines printed before the first statement that raises
SummaryPrinted(target, steps, raising) ==
    SelectSeq([i \in 1..((IF raising = {} THEN Len(steps) + 1
                          ELSE CHOOSE i \in raising : \A i2 \in raising : i <= i2) - 1) |->
                  [kind |-> SummaryKinds[i], target |-> target, value |-> steps[i].v]],
              IsPrinted)

SummaryOf(target, steps, regexps_after, regexps) ==
    [k |-> IF \E i \in 1..Len(steps) : steps[i].k = "raise" THEN "raise" ELSE "return",
     lines |-> SummaryPrinted(target, steps, {i \in 1..Len(steps) : steps[i].k = "raise"}),
     weight_regexps |-> IF steps[2].k = "raise" THEN regexps ELSE regexps_after]

SummaryLoaded(target, metadata_list, regexps) ==
    IF metadata_list.k = "raise"
    THEN [k |-> "raise", lines |-> <<>>, weight_regexps |-> regexps]
    ELSE SummaryOf(target, SummarySteps(target, metadata_list.v),
                   weight_regexps_after(Stem(target.name), metadata_list.v, regexps), regexps)

\* summary_file(target, output_stream, hints): the lines it prints
summary_file(target, files, hint_table, regexps) ==
    SummaryLoaded(target, get_metadata_list(target.name, files, hint_table), regexps)

(***************************************************************************)
(* The scanned directories and the hint files of the model                 *)
(***************************************************************************)
MaxFiles == 2

FooPony == <<"f", "o", "o", "_", "p", "o", "n", "y">> \o Suffix
FooXl == <<"f", "o", "o", "_", "x", "l">> \o Suffix
Foo == <<"f", "o", "o">> \o Suffix
FileNames == {FooPony, FooXl, Foo}

S_Pony == <<"P", "o", "n", "y">>
S_Illustrious == <<"I", "l", "l", "u", "s", "t", "r", "i", "o", "u", "s">>
S_SDXL == <<"S", "D", "X", "L">>
S_sdxl == <<"s", "d", "x", "l">>
S_Foo == <<"F", "o", "o">>

Beside(civitai, cminfo, json, header) ==
    ("civitai.info" :> civitai @@ "cm-info.json" :> cminfo @@ "json" :> json
        @@ "safetensors" :> header)

BareHeader == Json(JMap(<<>>))
HeaderWith(metadata) == Json(JMap("__metadata__" :> JMap(metadata)))

Companions == {
    Beside(Absent, Absent, Absent, BareHeader),
    Beside(Json(JMap("baseModel" :> JStr(S_Illustrious))), Absent, Absent, BareHeader),
    Beside(Json(JMap("baseModel" :> JStr(S_Pony))), Absent, Absent, BareHeader),
    Beside(Absent, Json(JMap(<<>>)), Absent, HeaderWith("ss_base_model_version" :> JStr(S_Foo))),
    Beside(Json(JMap("baseModel" :> JStr(S_Foo))), Absent, Json(JMap("sd version" :> JStr(S_SDXL))), BareHeader),
    Beside(Json(JMap("baseModel" :> JList(<<JStr(S_Pony)>>))), Absent, Absent, BareHeader),
    Beside(Absent, Malformed, Absent, BareHeader) }

HintTables == {
    <<>>,
    (FooXl :> ("baseModel" :> JStr(S_sdxl))),
    (FooPony :> ("sd version" :> JStr(S_Pony)) @@ Foo :> ("BaseModel" :> JStr(S_Foo))) }

\* The directories of at least one and at most n model files
Directories(n) ==
    UNION {[S -> Companions] : S \in {S \in SUBSET FileNames : S # {} /\ Cardinality(S) <= n}}

NoCall == [fn |-> "none"]
NoArgs == [prog |-> "none"]
\* result: YamlFragment = ({}, {}, {}, {})
NoFragment == <<<<>>, <<>>, <<>>, <<>>>>
InitialRegexps == <<[kind |-> "placeholder", name |-> <<>>],
                    [kind |-> "antecedent", name |-> <<>>],
                    [kind |-> "subsequent", name |-> <<>>]>>

(***************************************************************************)
(* Spec: a run of scan_model.py with --jinja over one directory            *)
(***************************************************************************)
Init ==
    /\ fs \in Directories(MaxFiles)
    /\ hints \in HintTables
    /\ todo = DOMAIN fs
    /\ out = <<>>
    /\ log = <<>>
    /\ pc = "main"
    /\ weight_regexps = InitialRegexps
    /\ args = NoArgs /\ fragment = NoFragment
    /\ call = NoCall
    /\ ret = Pending
    /\ eval_data = <<>> /\ heap = <<>>

\* override_list: the output file is opened and the header printed
OverrideListBegin ==
    /\ pc = "main"
    /\ pc' = "override_list"
    /\ out' = Append(out, HeaderLine)
    /\ UNCHANGED <<hints, fs, todo, log, weight_regexps, call, ret, args, fragment, eval_data, heap>>

\* override_list_file on the next file of os.walk, whose order is not
\* specified; an exception ends the run
OverrideListFile ==
    /\ pc = "override_list"
    /\ \E target \in todo :
        LET r == override_list_file(target, fs[target], hints)
        IN /\ out' = out \o r.lines
           /\ log' = log \o r.warnings
           /\ pc' = IF r.k = "raise" THEN "aborted" ELSE pc
           /\ todo' = IF r.k = "raise" THEN todo ELSE todo \ {target}
    /\ UNCHANGED <<hints, fs, weight_regexps, call, ret, args, fragment, eval_data, heap>>

\* override_list: every file is visited, the footer is printed
OverrideListEnd ==
    /\ pc = "override_list"
    /\ todo = {}
    /\ pc' = "done"
    /\ out' = Append(out, FooterLine)
    /\ UNCHANGED <<hints, fs, todo, log, weight_regexps, call, ret, args, fragment, eval_data, heap>>

Next == OverrideListBegin \/ OverrideListFile \/ OverrideListEnd

Spec == Init /\ [][Next]_vars

\* Files override_list_file has returned for, and the lines printed for one
Visited == DOMAIN fs \ todo
LinesFor(target) == {i \in 1..Len(out) : out[i].kind = "set" /\ out[i].modelname = target}
ActualOf(target) == get_base_model(get_metadata_list(target, fs[target], hints).v).v

\* C1: for every file override_list_file has processed, a `set result` line
\* for the file is in the output if and only if the metadata-derived code
\* differs from the filename-derived code; there is at most one such line and
\* it sets result to the metadata-derived code.
C1_LineIffClassificationsDiffer ==
    \A target \in Visited :
        LET actual == ActualOf(target)
            lines == LinesFor(target)
        IN /\ (lines # {}) <=> (actual # get_base_model_from_name(target))
           /\ Cardinality(lines) <= 1
           /\ \A i \in lines : out[i].result = actual

\* The pass is over and printed a line for one file and none for another.
C1_Witness ==
    /\ pc = "done"
    /\ \E a \in Visited : LinesFor(a) # {} /\ ActualOf(a) \notin {"unkn", get_base_model_from_name(a)}
    /\ \E b \in Visited : LinesFor(b) = {} /\ ActualOf(b) = get_base_model_from_name(b)

\* A file with no hint, no companion file and no embedded metadata whose
\* name classifies as pony
BarePony(target) ==
    /\ target \notin DOMAIN hints
    /\ fs[target] = Beside(Absent, Absent, Absent, BareHeader)
    /\ get_base_model_from_name(target) = "pony"

\* C2 as stated: such a file classifies by metadata as unkn and the pass
\* prints no line for it.
C2_NoLineForBarePony ==
    \A target \in Visited :
        BarePony(target) => ActualOf(target) = "unkn" /\ LinesFor(target) = {}

\* C2 as amended: such a file classifies by metadata as unkn, a warning is
\* logged for it, and, unkn being different from pony, the pass prints one
\* line for it, which sets result to 'unkn'.
C2_UnknLineForBarePony ==
    \A target \in Visited :
        BarePony(target) =>
            /\ ActualOf(target) = "unkn"
            /\ \E i \in 1..Len(log) : log[i] = target
            /\ Cardinality(LinesFor(target)) = 1
            /\ \A i \in LinesFor(target) : out[i] = SetLine("unkn", target)

C2_Witness == pc = "done" /\ \E target \in Visited : BarePony(target)

(***************************************************************************)
(* SpecName: get_base_model_from_name on every file name over NameLetters  *)
(***************************************************************************)
MaxNameLen == 4
NameLetters == {"p", "o", "n", "y", "d", "x", "l", "i", "X"}

\* The strings of at most n letters
StringsUpTo(letters, n) == UNION {[1..k -> letters] : k \in 0..n}

InitName ==
    /\ call \in {[fn |-> "get_base_model_from_name", name |-> stem \o Suffix] :
                    stem \in StringsUpTo(NameLetters, MaxNameLen)}
    /\ ret = Pending
    /\ hints = <<>> /\ fs = <<>> /\ todo = {} /\ out = <<>> /\ log = <<>>
    /\ pc = "call" /\ weight_regexps = InitialRegexps
    /\ args = NoArgs /\ fragment = NoFragment
    /\ eval_data = <<>> /\ heap = <<>>

GetBaseModelFromName ==
    /\ pc = "call" /\ call.fn = "get_base_model_from_name"
    /\ ret' = Return(get_base_model_from_name(call.name))
    /\ pc' = "returned"
    /\ UNCHANGED <<hints, fs, todo, out, log, weight_regexps, call, args, fragment, eval_data, heap>>

NextName == GetBaseModelFromName

SpecName == InitName /\ [][NextName]_vars

\* The keys of model_key_map that occur in the lowercased name
KeysIn(name) == {i \in 1..Len(model_key_map) : Contains(Lower(name), model_key_map[i][1])}

\* C7: get_base_model_from_name returns, for every name, the code of the
\* first key of model_key_map (pdxl, pony, ilxl, pxl, ill, ixl, il, xl, '')
\* that the lowercased name contains; the result is never unkn, and it is
\* sd15 exactly when none of the eight non-empty keys occurs in the name.
C7_FirstContainedKeyWins ==
    (pc = "returned" /\ call.fn = "get_base_model_from_name") =>
        LET keys == KeysIn(call.name)
        IN /\ ret.k = "return"
           /\ \E i \in keys :
                 /\ \A j \in keys : i <= j
                 /\ ret.v = model_key_map[i][2]
           /\ ret.v # "unkn"
           /\ (ret.v = "sd15") <=> (keys = {Len(model_key_map)})

\* A name holding two keys of different codes (pxl and xl), spelled with a
\* capital
C7_Witness ==
    /\ pc = "returned" /\ call.fn = "get_base_model_from_name"
    /\ {4, 8} \subseteq KeysIn(call.name)
    /\ call.name # Lower(call.name)
    /\ ret.v = "pony"

(***************************************************************************)
(* SpecValue: get_value, get_keywords and get_base_model on every list of  *)
(* at most MaxRecords records; the first record is the hint record, as in  *)
(* the lists get_metadata_list builds.                                     *)
(***************************************************************************)
MaxRecords == 2

NoValue == [t |-> "absent", v |-> 0]

\* The records that give each key one of its options or leave it out
RecordsOf(options) ==
    LET Values == UNION {options[k] : k \in DOMAIN options} \cup {NoValue}
        Choices == {g \in [DOMAIN options -> Values] :
                        \A k \in DOMAIN options : g[k] \in options[k] \cup {NoValue}}
    IN {[k \in {x \in DOMAIN options : g[x] # NoValue} |-> g[k]] : g \in Choices}

FieldNames == {"description", "title", "keywords", "creator", "weight"}

KeysOf(field) ==
    CASE field = "description" -> description_keys
      [] field = "title" -> title_keys
      [] field = "keywords" -> keyword_keys
      [] field = "creator" -> creator_keys
      [] field = "weight" -> weight_keys

FieldRecords(field) ==
    CASE field = "description" ->
            RecordsOf("model" :> {JStr(<<"x">>), JStr(BraceStr), JMap("description" :> JStr(<<"m">>))}
                      @@ "ModelDescription" :> {JStr(<<"M">>)}
                      @@ "description" :> {JStr(<<"D">>)})
      [] field = "title" ->
            RecordsOf("model" :> {JList(<<JStr(<<"x">>)>>), JMap("name" :> JStr(<<"t">>)), JNum(500)}
                      @@ "ModelName" :> {JStr(<<"T">>)})
      [] field = "keywords" ->
            RecordsOf("activation text" :> {JStr(<<"a", ",", " ", "b">>), JNum(500)}
                      @@ "trainedWords" :> {JList(<<JStr(<<"k">>)>>), JList(<<>>)}
                      @@ "TrainedWords" :> {JMap("k" :> JNum(100))})
      [] field = "creator" ->
            RecordsOf("creator" :> {JStr(<<"x">>), JMap("username" :> JStr(<<"u">>)), JNull,
                                    JMap("username" :> EmptyStr)})
      [] field = "weight" ->
            RecordsOf("preferred weight" :> {JStr(<<"0", ".", "8">>), JStr(<<"0">>), JNum(80), EmptyStr})

BaseValues == {JStr(S_Pony), JStr(S_SDXL \o <<" ", "1", ".", "0">>), JStr(S_Foo),
               JList(<<JStr(S_Pony)>>), JNum(100)}
BaseRecords ==
    {<<>>} \cup {(base_model_keys[i] :> v) : i \in 1..Len(base_model_keys), v \in BaseValues}

\* The lists of at least one and at most max records
ListsOf(records, max) == UNION {[1..n -> records] : n \in 1..max}

KeyLists(field) == {KeysOf(field)} \cup {<<KeysOf(field)[i]>> : i \in 1..Len(KeysOf(field))}

ValueCalls(max) ==
    UNION {{[fn |-> "get_value", field |-> f, keys_list |-> kl, metadata |-> m] :
                kl \in KeyLists(f), m \in ListsOf(FieldRecords(f), max)} : f \in FieldNames}
KeywordCalls(max) ==
    {[fn |-> "get_keywords", field |-> "keywords", keys_list |-> keyword_keys, metadata |-> m] :
        m \in ListsOf(FieldRecords("keywords"), max)}
BaseModelCalls(max) ==
    {[fn |-> "get_base_model", field |-> "base model", keys_list |-> <<>>, metadata |-> m] :
        m \in ListsOf(BaseRecords, max)}

InitValue ==
    /\ call \in ValueCalls(MaxRecords) \cup KeywordCalls(MaxRecords) \cup BaseModelCalls(MaxRecords)
    /\ ret = Pending
    /\ hints = <<>> /\ fs = <<>> /\ todo = {} /\ out = <<>> /\ log = <<>>
    /\ pc = "call" /\ weight_regexps = InitialRegexps
    /\ args = NoArgs /\ fragment = NoFragment
    /\ eval_data = <<>> /\ heap = <<>>

GetValue ==
    /\ pc = "call" /\ call.fn = "get_value"
    /\ ret' = get_value(call.metadata, call.keys_list)
    /\ pc' = "returned"
    /\ UNCHANGED <<hints, fs, todo, out, log, weight_regexps, call, args, fragment, eval_data, heap>>

GetKeywords ==
    /\ pc = "call" /\ call.fn = "get_keywords"
    /\ ret' = get_keywords(call.metadata)
    /\ pc' = "returned"
    /\ UNCHANGED <<hints, fs, todo, out, log, weight_regexps, call, args, fragment, eval_data, heap>>

GetBaseModel ==
    /\ pc = "call" /\ call.fn = "get_base_model"
    /\ ret' = get_base_model(call.metadata)
    /\ pc' = "returned"
    /\ UNCHANGED <<hints, fs, todo, out, log, weight_regexps, call, args, fragment, eval_data, heap>>

NextValue == GetValue \/ GetKeywords \/ GetBaseModel

SpecValue == InitValue /\ [][NextValue]_vars

\* The record holds a non-empty value at the end of the key-path.  A record
\* whose key-path runs into something that is no mapping holds none.
Holds(record, keys) ==
    get_recursive(record, keys).k = "return" /\ Truthy(get_recursive(record, keys).v)

\* The record holds a value of normalize_map under the base-model key.
HoldsMapped(record, key) ==
    /\ key \in DOMAIN record
    /\ record[key].t = "str"
    /\ NormalizeIdx(record[key].v) # {}

Returned(fn) == pc = "returned" /\ call.fn = fn

\* C3: when the hint record, the first of the list, supplies a non-empty
\* value under one of the field's key-paths, the extracted value is a value
\* the hint record supplies; for the base model, when the hint record holds
\* a mapped value, the code is the code of a value of the hint record.
C3_HintsTakePrecedence ==
    /\ (Returned("get_value") /\ call.keys_list = KeysOf(call.field) /\ ret.k = "return") =>
          ((\E i \in 1..Len(call.keys_list) : Holds(call.metadata[1], call.keys_list[i]))
              => \E i \in 1..Len(call.keys_list) :
                    /\ Holds(call.metadata[1], call.keys_list[i])
                    /\ ret.v = get_recursive(call.metadata[1], call.keys_list[i]).v)
    /\ (Returned("get_base_model") /\ ret.k = "return") =>
          ((\E i \in 1..Len(base_model_keys) : HoldsMapped(call.metadata[1], base_model_keys[i]))
              => \E i \in 1..Len(base_model_keys) :
                    /\ HoldsMapped(call.metadata[1], base_model_keys[i])
                    /\ ret = NormalizeGet(call.metadata[1][base_model_keys[i]]))

\* C4: for one key-path and two records, when only the second record holds
\* a non-empty value get_value returns the second record's value, and when
\* both hold one it returns the first record's value.
C4_FirstMatchWins ==
    (Returned("get_value") /\ Len(call.keys_list) = 1 /\ Len(call.metadata) = 2) =>
        LET keys == call.keys_list[1]
            first == call.metadata[1]
            second == call.metadata[2]
        IN /\ (~Holds(first, keys) /\ Holds(second, keys)) => ret = get_recursive(second, keys)
           /\ (Holds(first, keys) /\ Holds(second, keys)) => ret = get_recursive(first, keys)

\* C5: when no record holds a non-empty value under any key-path of the
\* list, get_value returns '' and get_keywords returns [], and no exception
\* is raised, whatever the key-path prefixes run into.
C5_MissingFieldsNeverRaise ==
    (\A i \in 1..Len(call.keys_list), j \in 1..Len(call.metadata) :
            ~Holds(call.metadata[j], call.keys_list[i])) =>
        /\ Returned("get_value") => ret = Return(EmptyStr)
        /\ Returned("get_keywords") => ret = Return(<<>>)

\* C6: get_base_model returns the code of the first mapped value, the keys
\* of base_model_keys in the outer loop and the records in the inner loop,
\* and unkn when no key and record hold a mapped value; the result is one of
\* the five codes.
C6_FirstMappedValueOrUnkn ==
    Returned("get_base_model") =>
        LET Mapped == {<<i, j>> \in (1..Len(base_model_keys)) \X (1..Len(call.metadata)) :
                            HoldsMapped(call.metadata[j], base_model_keys[i])}
            Before(a, b) == a[1] < b[1] \/ (a[1] = b[1] /\ a[2] <= b[2])
        IN /\ ret.k = "return"
           /\ ret.v \in Codes
           /\ Mapped = {} => ret.v = "unkn"
           /\ \A a \in Mapped : (\A b \in Mapped : Before(a, b)) =>
                 ret = NormalizeGet(call.metadata[a[2]][base_model_keys[a[1]]])

(***************************************************************************)
(* SpecCalc: calc_weight on every pair of decimal strings of at most       *)
(* MaxIntDigits digits before and MaxFracDigits digits after the point     *)
(***************************************************************************)
MaxIntDigits == 1
MaxFracDigits == 1

DigitStrings(n) == StringsUpTo(Digits, n) \ {<<>>}
\* The decimal strings of at most m digits before the point and none or at
\* most n digits after it
DecimalStrings(m, n) ==
    DigitStrings(m) \cup {i \o <<".">> \o f : i \in DigitStrings(m), f \in DigitStrings(n)}

InitCalc ==
    /\ call \in {[fn |-> "calc_weight", left |-> l, right |-> r] :
                    l \in DecimalStrings(MaxIntDigits, MaxFracDigits),
                    r \in {None} \cup {Some(x) : x \in DecimalStrings(MaxIntDigits, MaxFracDigits)}}
    /\ ret = Pending
    /\ hints = <<>> /\ fs = <<>> /\ todo = {} /\ out = <<>> /\ log = <<>>
    /\ pc = "call" /\ weight_regexps = InitialRegexps
    /\ args = NoArgs /\ fragment = NoFragment
    /\ eval_data = <<>> /\ heap = <<>>

CalcWeight ==
    /\ pc = "call" /\ call.fn = "calc_weight"
    /\ ret' = calc_weight(call.left, call.right)
    /\ pc' = "returned"
    /\ UNCHANGED <<hints, fs, todo, out, log, weight_regexps, call, args, fragment, eval_data, heap>>

NextCalc == CalcWeight

SpecCalc == InitCalc /\ [][NextCalc]_vars

\* The averaging rule on the decimal values of the two strings, in
\* hundredths: right defaults to left; left 0 gives 1.0; a right without a
\* point, greater than 4 and greater than ten times the fractional part of
\* left stands for int(left).right; the mean is rounded to two decimals, a
\* tie to the even neighbour.
RuleWeight(left, right0) ==
    LET right == IF right0 = None THEN left ELSE right0[1]
        l == Dec100(left)
        r == Dec100(right)
        r2 == IF ~HasPoint(right) /\ r > 400 /\ (l % 100) * 10 < r
              THEN Dec100(IntToStr(l \div 100) \o <<".">> \o right)
              ELSE r
        sum == l + r2
    IN IF l = 0 THEN 100
       ELSE IF sum % 2 = 1 /\ (sum \div 2) % 2 = 1 THEN (sum \div 2) + 1
       ELSE sum \div 2

\* C10: for every pair of decimal strings of the set, calc_weight returns
\* the value of the averaging rule.
C10_CalcWeightIsTheRule ==
    Returned("calc_weight") => ret = Return(PyFloat(RuleWeight(call.left, call.right)))

(***************************************************************************)
(* SpecWeight: get_weight for the file stem n on a hint record and a file  *)
(* record whose description is made of at most MaxTokens tokens            *)
(***************************************************************************)
MaxTokens == 2

T_Lora == <<"<", "l", "o", "r", "a", ":", "n", ":", "0", ".", "6", ">">>
T_Weight == <<"W", "e", "i", "g", "h", "t", ":", " ", "0", ".", "8", " ">>
T_Best == <<"0", ".", "5", " ", "w", "e", "i", "g", "h", "t">>
T_Range == <<"<", "b", ">", "u", "s", "e", " ", "i", "t", " ", "1", "-", "8">>
T_DoNot == DoNotUseA
T_Split == <<"u", "s", "e", " ", "i", "t", " ", "1", "-", "<", "b", ">", "8">>
DescTokens == {T_Lora, T_Weight, T_Best, T_Range, T_DoNot, T_Split}

RECURSIVE TextsUpTo(_)
TextsUpTo(n) ==
    IF n = 0 THEN {<<>>}
    ELSE TextsUpTo(n - 1) \cup {s \o t : s \in TextsUpTo(n - 1), t \in DescTokens}

HintWeights == {JStr(<<"0", ".", "8">>), JStr(<<"0">>), JNum(0)}
FileWeights == {JStr(<<"0", ".", "8">>), JStr(<<"0">>), JStr(<<"x">>)}

WeightCalls(max) ==
    {[fn |-> "get_weight", name |-> <<"n">>, metadata |-> <<h, r>>] :
        h \in RecordsOf("preferred weight" :> HintWeights),
        r \in RecordsOf("preferred weight" :> FileWeights
                        @@ "description" :> {JStr(d) : d \in TextsUpTo(max)})}

InitWeight ==
    /\ call \in WeightCalls(MaxTokens)
    /\ ret = Pending
    /\ hints = <<>> /\ fs = <<>> /\ todo = {} /\ out = <<>> /\ log = <<>>
    /\ pc = "call" /\ weight_regexps = InitialRegexps
    /\ args = NoArgs /\ fragment = NoFragment
    /\ eval_data = <<>> /\ heap = <<>>

GetWeight ==
    /\ pc = "call" /\ call.fn = "get_weight"
    /\ ret' = get_weight(call.name, call.metadata)
    /\ weight_regexps' = weight_regexps_after(call.name, call.metadata, weight_regexps)
    /\ pc' = "returned"
    /\ UNCHANGED <<hints, fs, todo, out, log, call, args, fragment, eval_data, heap>>

NextWeight == GetWeight

SpecWeight == InitWeight /\ [][NextWeight]_vars

\* The preferred-weight field of the record list: the first value under
\* 'preferred weight' that is not empty, '' when there is none
FieldOf(metadata) ==
    LET Filled == {j \in 1..Len(metadata) :
                      /\ "preferred weight" \in DOMAIN metadata[j]
                      /\ Truthy(metadata[j]["preferred weight"])}
    IN IF Filled = {} THEN EmptyStr
       ELSE metadata[CHOOSE j \in Filled : \A j2 \in Filled : j <= j2]["preferred weight"]

UsableField(metadata) == Truthy(FieldOf(metadata)) /\ FieldOf(metadata) # JStr(<<"0">>)

\* C8: when the preferred-weight field is non-empty and not the string "0",
\* get_weight returns (float(field), 'metadata'), or raises what float(field)
\* raises; in every other case the result is the result of the description
\* search and its provenance is not 'metadata'.
C8_MetadataWeightWhenUsable ==
    Returned("get_weight") =>
        /\ UsableField(call.metadata) =>
              /\ IsFloatStr(FieldOf(call.metadata).v) =>
                    ret = Return(<<PyFloat(Dec100(FieldOf(call.metadata).v)), FromMetadata>>)
              /\ ~IsFloatStr(FieldOf(call.metadata).v) => ret = Raise("ValueError")
        /\ ~UsableField(call.metadata) =>
              /\ ret = get_weight_from_description(call.name, get_description(call.metadata).v.v)
              /\ ret.k = "return" => ret.v[2] # FromMetadata

\* The hint record says "0", the file record a usable weight and a
\* description with a weight: the field "0" sends get_weight to the
\* description.
C8_Witness ==
    /\ Returned("get_weight")
    /\ FieldOf(call.metadata) = JStr(<<"0">>)
    /\ "preferred weight" \in DOMAIN call.metadata[2]
    /\ UsableField(<<call.metadata[2]>>)
    /\ ret.k = "return" /\ ret.v[2] \notin {FromMetadata, NotApplicable}

\* No pattern matches the raw or the cooked variant of the description
NothingMatches(name, input_description) ==
    \A n \in 1..3 :
        /\ ~Search(n, name, RawDescription(input_description)).found
        /\ ~Search(n, name, CookedDescription(input_description)).found

\* C9: with no usable preferred-weight field and a description, empty or
\* absent included, that none of the three patterns matches in either
\* variant, get_weight returns the weight 1 with the provenance 'N/A'.
C9_DefaultWeight ==
    (/\ Returned("get_weight")
     /\ ~UsableField(call.metadata)
     /\ NothingMatches(call.name, get_description(call.metadata).v.v)) =>
        /\ ret.k = "return"
        /\ ret.v[1].num = 100
        /\ ret.v[2] = NotApplicable

\* A description that is not empty and matches nothing
C9_Witness ==
    /\ Returned("get_weight")
    /\ ~UsableField(call.metadata)
    /\ get_description(call.metadata).v.v # <<>>
    /\ NothingMatches(call.name, get_description(call.metadata).v.v)
    /\ ret.v[2] = NotApplicable

\* The patterns of 1..3 that match the raw or the cooked variant
MatchingPatterns(name, input_description) ==
    {n \in 1..3 : \/ Search(n, name, RawDescription(input_description)).found
                  \/ Search(n, name, CookedDescription(input_description)).found}

\* The match that wins: of the earliest pattern that matches a variant, on
\* the raw variant when it matches there, on the cooked one otherwise
WinningMatch(name, input_description) ==
    LET n == CHOOSE n \in MatchingPatterns(name, input_description) :
                 \A n2 \in MatchingPatterns(name, input_description) : n <= n2
        raw == Search(n, name, RawDescription(input_description))
    IN IF raw.found THEN raw ELSE Search(n, name, CookedDescription(input_description))

\* C11: when get_weight reaches the description search and some pattern
\* matches, the result comes from the earliest pattern (LoRA tag, antecedent
\* phrase, bare `N weight(s)` phrase) that matches either variant, from its
\* match on the raw text when there is one and on the cooked text otherwise,
\* whatever later patterns match; the weight is calc_weight of that match's
\* groups and the provenance is the whole text the match spans.
C11_EarliestPatternRawFirst ==
    (/\ Returned("get_weight")
     /\ ~UsableField(call.metadata)
     /\ MatchingPatterns(call.name, get_description(call.metadata).v.v) # {}) =>
        LET match == WinningMatch(call.name, get_description(call.metadata).v.v)
        IN /\ ret.k = "return"
           /\ ret.v[1] = calc_weight(match.g1, match.g2).v
           /\ ret.v[2] = match.span

\* The antecedent phrase matches the raw and the cooked text with different
\* spans, and the bare phrase matches further left in the text: the result
\* is the raw match of the antecedent phrase.
C11_Witness ==
    /\ Returned("get_weight")
    /\ ~UsableField(call.metadata)
    /\ LET d == get_description(call.metadata).v.v
           raw == Search(2, call.name, RawDescription(d))
           cooked == Search(2, call.name, CookedDescription(d))
       IN /\ MatchingPatterns(call.name, d) = {2, 3}
          /\ raw.found /\ cooked.found /\ raw.span # cooked.span
          /\ Search(3, call.name, RawDescription(d)).span # raw.span
          /\ ret.k = "return" /\ ret.v[2] = raw.span

(***************************************************************************)
(* SpecNorm: get_normalized_name on every stem over StemLetters, and once  *)
(* more on its own result                                                  *)
(***************************************************************************)
MaxStemLen == 4
StemLetters == {"v", "1", "-", ".", "!", "x", "l"}

InitNorm ==
    /\ call \in {[fn |-> "get_normalized_name", name |-> stem, again |-> FALSE] :
                    stem \in StringsUpTo(StemLetters, MaxStemLen)}
    /\ ret = Pending
    /\ hints = <<>> /\ fs = <<>> /\ todo = {} /\ out = <<>> /\ log = <<>>
    /\ pc = "call" /\ weight_regexps = InitialRegexps
    /\ args = NoArgs /\ fragment = NoFragment
    /\ eval_data = <<>> /\ heap = <<>>

GetNormalizedName ==
    /\ pc = "call" /\ call.fn = "get_normalized_name"
    /\ ret' = Return(get_normalized_name(call.name))
    /\ pc' = "returned"
    /\ UNCHANGED <<hints, fs, todo, out, log, weight_regexps, call, args, fragment, eval_data, heap>>

\* The result is handed to get_normalized_name as its next argument
NormalizeAgain ==
    /\ pc = "returned" /\ call.fn = "get_normalized_name" /\ ~call.again
    /\ call' = [fn |-> "get_normalized_name", name |-> ret.v, again |-> TRUE]
    /\ ret' = Pending
    /\ pc' = "call"
    /\ UNCHANGED <<hints, fs, todo, out, log, weight_regexps, args, fragment, eval_data, heap>>

NextNorm == GetNormalizedName \/ NormalizeAgain

SpecNorm == InitNorm /\ [][NextNorm]_vars

\* C13: get_normalized_name applied to its own result returns that result:
\* get_normalized_name(get_normalized_name(s)) = get_normalized_name(s).
C13_NormalizeIdempotent ==
    (pc = "returned" /\ call.fn = "get_normalized_name" /\ call.again) => ret.v = call.name

(***************************************************************************)
(* SpecYaml: a run of scan_model.py with some of --list, --variant,        *)
(* --check-place and --summary over targets that are files or directories  *)
(***************************************************************************)
MaxModels == 2

N == <<"n">> \o Suffix
NV2 == <<"n", "-", "v", "2">> \o Suffix

D == [parent |-> <<>>, name |-> <<"d">>]
D_N == [parent |-> <<<<"d">>>>, name |-> N]
D_E_N == [parent |-> <<<<"d">>, <<"e">>>>, name |-> N]
D_NV2 == [parent |-> <<<<"d">>>>, name |-> NV2]
ModelPaths == {D_N, D_E_N, D_NV2}

\* A description with the tag of n, a title, a creator, a keyword list
L_Tag ==
    Beside(Json(JMap("description" :> JStr(T_Lora) @@ "baseModel" :> JStr(S_Pony)
                     @@ "model" :> JMap("name" :> JStr(<<"T">>))
                     @@ "trainedWords" :> JList(<<JStr(<<"k">>)>>)
                     @@ "creator" :> JMap("username" :> JStr(<<"c">>)))),
           Absent, Absent, BareHeader)
\* The same tag beside a preferred weight, another base model
L_Sdxl ==
    Beside(Absent, Absent,
           Json(JMap("description" :> JStr(T_Lora) @@ "sd version" :> JStr(S_SDXL)
                     @@ "preferred weight" :> JStr(<<"0", ".", "8">>)
                     @@ "creator" :> JMap("username" :> JStr(<<"c">>)))),
           BareHeader)
\* A record whose 'model' is no mapping: get_title raises
L_Bad == Beside(Absent, Json(JMap("model" :> JStr(<<"x">>))), Absent, BareHeader)
L_Bare == Beside(Absent, Absent, Absent, BareHeader)
YamlCompanions == {L_Bare, L_Tag, L_Sdxl, L_Bad}

\* What lies beside a path that does not exist
Nothing == Beside(Absent, Absent, Absent, Absent)

YamlHints == {<<>>, (N :> ("trainedWords" :> JList(<<JStr(<<"h">>)>>)))}

\* The trees of at least one and at most n model files
Trees(n) ==
    UNION {[S -> YamlCompanions] : S \in {S \in SUBSET ModelPaths : S # {} /\ Cardinality(S) <= n}}

TargetLists == {<<D>>, <<D_N>>, <<D, D_N>>, <<D_N, D>>, <<D_N, D_N>>}

Options(list, variant, place, summary) ==
    [list |-> list, variant |-> variant, singular |-> FALSE, check_place |-> place,
     summary |-> summary]

OptionSets == {Options(TRUE, FALSE, FALSE, FALSE), Options(TRUE, FALSE, FALSE, TRUE),
               Options(FALSE, TRUE, TRUE, FALSE), Options(TRUE, TRUE, FALSE, FALSE),
               Options(FALSE, FALSE, FALSE, FALSE)}

\* args of scan_model.py; hint is what json.loads made of the --hint file
ScanArgs(target, hint, o) ==
    [prog |-> "scan_model.py", target |-> target, hint |-> hint,
     list |-> o.list, list_root |-> None, variant |-> o.variant, variant_root |-> None,
     singular |-> o.singular, singular_root |-> None,
     check_place |-> o.check_place, validate |-> None, summary |-> o.summary]

\* The names of the sources of readers as they follow the dot
SuffixOf ==
    ("civitai.info" :> <<"c", "i", "v", "i", "t", "a", "i", ".", "i", "n", "f", "o">>
     @@ "cm-info.json" :> <<"c", "m", "-", "i", "n", "f", "o", ".", "j", "s", "o", "n">>
     @@ "json" :> <<"j", "s", "o", "n">> @@ "safetensors" :> Tail(Suffix))

\* target.with_suffix('') followed by a source's suffix: the sibling read
Sibling(target, suffix) ==
    [parent |-> target.parent, name |-> Stem(target.name) \o <<".">> \o SuffixOf[suffix]]

filter_tensors(name) ==
    Len(name) >= Len(Suffix) /\ SubSeq(name, Len(name) - Len(Suffix) + 1, Len(name)) = Suffix

\* The regular files of the tree: fs maps each model path to the state of
\* the model file (the source "safetensors") and of its companions, and
\* each other path to the text of the file
ModelKeys == {f \in DOMAIN fs : filter_tensors(f.name)}
RegularFiles ==
    UNION {{Sibling(f, suffix) : suffix \in {x \in DOMAIN SuffixOf : fs[f][x].st # "absent"}} :
              f \in ModelKeys}
    \cup (DOMAIN fs \ ModelKeys)

\* Path.is_dir(), os.walk and filter_tensors
Full(path) == Append(path.parent, path.name)
IsPrefix(a, b) == Len(a) <= Len(b) /\ SubSeq(b, 1, Len(a)) = a
is_dir(target) == \E f \in RegularFiles : IsPrefix(Full(target), f.parent)
Walk(target) ==
    {f \in RegularFiles : IsPrefix(Full(target), f.parent) /\ filter_tensors(f.name)}

\* What the readers find beside target, whatever target's own extension
FilesOf(target) ==
    IF Sibling(target, "safetensors") \in DOMAIN fs
    THEN fs[Sibling(target, "safetensors")] ELSE Nothing

\* The files each target of the list stands for, targets without files
\* dropped: the loop `for target in targets` has nothing to do for them
RECURSIVE Work(_)
Work(targets) ==
    IF targets = <<>> THEN <<>>
    ELSE IF is_dir(Head(targets))
         THEN (IF Walk(Head(targets)) = {} THEN <<>> ELSE <<Walk(Head(targets))>>)
              \o Work(Tail(targets))
    ELSE <<{Head(targets)}>> \o Work(Tail(targets))

\* The work left once target of the first item is done
Rest(items, target) ==
    IF Head(items) = {target} THEN Tail(items) ELSE <<Head(items) \ {target}>> \o Tail(items)

\* The passes of __main__ in their order, and the conditions they run under
PassOrder == <<"yaml_read", "check_place", "list", "variant", "singular", "validate", "summary">>

Wanted(pass) ==
    CASE pass = "yaml_read" -> args.list \/ args.variant \/ args.singular \/ args.check_place
      [] pass = "check_place" -> args.check_place
      [] pass = "list" -> args.list
      [] pass = "variant" -> args.variant
      [] pass = "singular" -> args.singular
      [] pass = "validate" -> args.validate # None
      [] pass = "summary" -> \/ args.summary
                             \/ ~(\/ args.list \/ args.variant \/ args.singular \/ args.check_place
                                  \/ args.validate # None)

PassAfter(i) ==
    IF \E j \in (i + 1)..Len(PassOrder) : Wanted(PassOrder[j])
    THEN PassOrder[CHOOSE j \in (i + 1)..Len(PassOrder) :
                       Wanted(PassOrder[j]) /\ \A j2 \in (i + 1)..(j - 1) : ~Wanted(PassOrder[j2])]
    ELSE "done"

Enter(pass) == IF pass \in {"yaml_read", "summary"} THEN Work(args.target) ELSE <<>>

InitYaml ==
    /\ fs \in Trees(MaxModels)
    /\ \E target \in TargetLists, hint \in YamlHints, o \in OptionSets :
          /\ args = ScanArgs(target, hint, o)
          /\ hints = hint
    /\ todo = <<>>
    /\ out = <<>>
    /\ log = <<>>
    /\ pc = "main"
    /\ weight_regexps = InitialRegexps
    /\ fragment = NoFragment
    /\ call = NoCall
    /\ ret = Pending
    /\ eval_data = <<>> /\ heap = <<>>

\* __main__ after the hints are loaded: the first pass the options ask for
Main ==
    /\ pc = "main"
    /\ pc' = PassAfter(0)
    /\ todo' = Enter(PassAfter(0))
    /\ UNCHANGED <<hints, fs, out, log, weight_regexps, call, ret, args, fragment, eval_data, heap>>

\* yaml_fragment_read_file on the next file; an exception ends the run
YamlFragmentReadFile ==
    /\ pc = "yaml_read" /\ todo # <<>>
    /\ \E target \in Head(todo) :
        \E r \in {yaml_fragment_read_file(target, FilesOf(target), fragment,
                                           args.variant \/ args.singular \/ args.check_place,
                                           args.check_place,
                                           hints, weight_regexps)} :
           /\ fragment' = r.fragment
           /\ hints' = r.hints
           /\ weight_regexps' = r.weight_regexps
           /\ pc' = IF r.k = "raise" THEN "aborted" ELSE pc
           /\ todo' = IF r.k = "raise" THEN todo ELSE Rest(todo, target)
    /\ UNCHANGED <<fs, out, log, call, ret, args, eval_data, heap>>

\* yaml_fragment_read returns the fragment
YamlFragmentReadEnd ==
    /\ pc = "yaml_read" /\ todo = <<>>
    /\ pc' = PassAfter(1)
    /\ todo' = Enter(PassAfter(1))
    /\ UNCHANGED <<hints, fs, out, log, weight_regexps, call, ret, args, fragment, eval_data, heap>>

\* check_place(place): the warnings of the call are one entry of the log
CheckPlace ==
    /\ pc = "check_place"
    /\ \E groups \in {check_place(fragment[4])} :
          log' = IF groups = {} THEN log ELSE Append(log, [kind |-> "split", groups |-> groups])
    /\ pc' = PassAfter(2)
    /\ todo' = Enter(PassAfter(2))
    /\ UNCHANGED <<hints, fs, out, weight_regexps, call, ret, args, fragment, eval_data, heap>>

YamlFragmentList ==
    /\ pc = "list"
    /\ \E r \in {yaml_fragment_list(fragment[1], fragment[3], args.list_root)} :
          /\ out' = Append(out, [kind |-> "list", doc |-> r])
          /\ pc' = IF r.k = "raise" THEN "aborted" ELSE PassAfter(3)
          /\ todo' = IF r.k = "raise" THEN todo ELSE Enter(PassAfter(3))
    /\ UNCHANGED <<hints, fs, log, weight_regexps, call, ret, args, fragment, eval_data, heap>>

YamlFragmentVariant ==
    /\ pc = "variant"
    /\ \E r \in {yaml_fragment_variant(fragment[2], fragment[3], args.variant_root)} :
          /\ out' = Append(out, [kind |-> "variant", doc |-> r])
          /\ pc' = IF r.k = "raise" THEN "aborted" ELSE PassAfter(4)
          /\ todo' = IF r.k = "raise" THEN todo ELSE Enter(PassAfter(4))
    /\ UNCHANGED <<hints, fs, log, weight_regexps, call, ret, args, fragment, eval_data, heap>>

\* summary_file on the next file
SummaryFile ==
    /\ pc = "summary" /\ todo # <<>>
    /\ \E target \in Head(todo) :
        \E r \in {summary_file(target, FilesOf(target), hints, weight_regexps)} :
           /\ out' = out \o r.lines
           /\ weight_regexps' = r.weight_regexps
           /\ pc' = IF r.k = "raise" THEN "aborted" ELSE pc
           /\ todo' = IF r.k = "raise" THEN todo ELSE Rest(todo, target)
    /\ UNCHANGED <<hints, fs, log, call, ret, args, fragment, eval_data, heap>>

SummaryEnd ==
    /\ pc = "summary" /\ todo = <<>>
    /\ pc' = "done"
    /\ UNCHANGED <<hints, fs, todo, out, log, weight_regexps, call, ret, args, fragment, eval_data, heap>>

NextYaml ==
    \/ Main \/ YamlFragmentReadFile \/ YamlFragmentReadEnd \/ CheckPlace
    \/ YamlFragmentList \/ YamlFragmentVariant \/ SummaryFile \/ SummaryEnd

SpecYaml == InitYaml /\ [][NextYaml]_vars

\* The metadata list of a file as loaded: its records and the hint record
\* of the hint file
LoadedList(target) == get_metadata_list(target.name, FilesOf(target), args.hint)

\* A file n.safetensors with no preferred-weight field in any record whose
\* description holds the tag <lora:n:0.6>
HasOwnTag(target) ==
    /\ Stem(target.name) = <<"n">>
    /\ LoadedList(target).k = "return"
    /\ \A i \in 1..Len(LoadedList(target).v) :
          "preferred weight" \notin DOMAIN LoadedList(target).v[i]
    /\ get_description(LoadedList(target).v).k = "return"
    /\ get_description(LoadedList(target).v).v.t = "str"
    /\ Contains(get_description(LoadedList(target).v).v.v, T_Lora)

\* The weight lines the summary has printed for target, and the places of
\* target in the lists of structure (a)
WeightLines(target) ==
    {i \in 1..Len(out) : out[i].kind = "weight" /\ out[i].target = target}
ListDocs == {i \in 1..Len(out) : out[i].kind = "list" /\ out[i].doc.k = "return"}
PlacesOf(target) ==
    {p \in (DOMAIN fragment[1]) \X (1..(2 * MaxModels + 2)) :
        p[2] <= Len(fragment[1][p[1]]) /\ fragment[1][p[1]][p[2]] = target}

\* C12: for a file n.safetensors with no preferred-weight field whose
\* description holds <lora:n:0.6>, the summary prints the weight 0.6 with the
\* tag as provenance, and so does the leaf line of the file in every YAML
\* list that is written: both emitters look the tag up under the stem.
C12_TagWeightInEveryEmitter ==
    \A target \in ModelPaths :
        HasOwnTag(target) =>
            /\ \A i \in WeightLines(target) : out[i].value = <<PyFloat(60), T_Lora>>
            /\ \A d \in ListDocs : \A p \in PlacesOf(target) :
                  /\ out[d].doc.v.body[p[1]][p[2]].weight = PyFloat(60)
                  /\ out[d].doc.v.body[p[1]][p[2]].source = T_Lora

\* The files in the lists of structure (a) and the files the variant
\* structure (b) refers to
Listed(loras) == {loras[i] : i \in 1..Len(loras)}
ListedFiles == UNION {Listed(fragment[1][c]) : c \in DOMAIN fragment[1]}
VariantFiles ==
    UNION {UNION {Listed(fragment[2][g[1]][g[2]][b]) : b \in DOMAIN fragment[2][g[1]][g[2]]} :
              g \in Groups(fragment[2])}

\* C14: while the run has not been ended by an exception, every file in a
\* list of structure (a) and every file the variant structure (b) refers to
\* has its description line in structure (c), and no YAML emitter has
\* failed on a lookup lora_desc[file].
C14_ListedFilesAreDescribed ==
    /\ pc # "aborted" => (ListedFiles \cup VariantFiles) \subseteq DOMAIN fragment[3]
    /\ \A i \in 1..Len(out) : out[i].kind \in {"list", "variant"} => out[i].doc.k = "return"

\* Both emitters have written a document with leaf lines for two files
C14_Witness ==
    /\ pc = "done"
    /\ Cardinality(ListedFiles) = 2
    /\ VariantFiles # {}
    /\ \E i, j \in 1..Len(out) :
          /\ out[i].kind = "list" /\ out[i].doc.k = "return"
          /\ out[j].kind = "variant" /\ out[j].doc.k = "return"
          /\ DOMAIN out[j].doc.v.body # {}

\* The files the targets stand for, and the files filed under a code
Scanned == UNION {Work(args.target)[i] : i \in 1..Len(Work(args.target))}
FilesUnder(code) == IF code \in DOMAIN fragment[1] THEN Listed(fragment[1][code]) ELSE {}
ReadDone ==
    Wanted("yaml_read") /\ pc \in {"check_place", "list", "variant", "singular", "summary", "done"}
BaseModelLines == {i \in 1..Len(out) : out[i].kind = "basemodel"}

\* C15: once yaml_fragment_read has returned, the files filed under each
\* code in structure (a) are the scanned files whose metadata list, as
\* loaded, classifies to that code, whatever the order the files were
\* visited in; and the pair of codes the summary prints for a file is the
\* code of its name and the code of its metadata list as loaded.
C15_ClassificationIgnoresOrder ==
    /\ ReadDone =>
          \A code \in Codes :
              FilesUnder(code) = {f \in Scanned : get_base_model(LoadedList(f).v).v = code}
    /\ \A i \in BaseModelLines :
          out[i].value = <<get_base_model_from_name(out[i].target.name),
                           get_base_model(LoadedList(out[i].target).v).v>>

\* Two files of one directory, of different codes, have been read (in
\* either order), one of them with a hint record the read has changed, and
\* the summary has printed the codes of both
C15_Witness ==
    /\ pc = "done" /\ ReadDone
    /\ args.target = <<D>>
    /\ hints # args.hint
    /\ Cardinality({code \in Codes : FilesUnder(code) # {}}) = 2
    /\ Cardinality({out[i].target : i \in BaseModelLines}) = 2

(***************************************************************************)
(* get_metadata_list on one model file: each source is absent, holds an    *)
(* empty record, or a record that names the source; the .json file may be  *)
(* no JSON at all                                                          *)
(***************************************************************************)
RecordOf(suffix) == JMap("source" :> JStr(<<suffix>>))
SourceStates(suffix) == {Absent, Json(JMap(<<>>)), Json(RecordOf(suffix))}
HeaderStates ==
    {Absent, BareHeader, HeaderWith(<<>>), HeaderWith("source" :> JStr(<<"safetensors">>))}
ListHints == {<<>>, (N :> <<>>), (NV2 :> ("trainedWords" :> JList(<<JStr(<<"h">>)>>))),
              (N :> ("trainedWords" :> JList(<<JStr(<<"h">>)>>)))}

InitList ==
    /\ \E civitai \in SourceStates("civitai.info"), cminfo \in SourceStates("cm-info.json"),
          json \in SourceStates("json") \cup {Malformed}, header \in HeaderStates :
          fs = (D_N :> Beside(civitai, cminfo, json, header))
    /\ hints \in ListHints
    /\ call = [fn |-> "get_metadata_list", target |-> D_N]
    /\ ret = Pending
    /\ todo = <<>> /\ out = <<>> /\ log = <<>>
    /\ pc = "call" /\ weight_regexps = InitialRegexps
    /\ args = NoArgs /\ fragment = NoFragment
    /\ eval_data = <<>> /\ heap = <<>>

GetMetadataList ==
    /\ pc = "call" /\ call.fn = "get_metadata_list"
    /\ ret' = get_metadata_list(call.target.name, fs[call.target], hints)
    /\ pc' = "returned"
    /\ UNCHANGED <<hints, fs, todo, out, log, weight_regexps, call, args, fragment, eval_data, heap>>

NextList == GetMetadataList

SpecList == InitList /\ [][NextList]_vars

\* What a source contributes: its record when the file exists and the
\* record is not empty (for the model file, the record under __metadata__)
RecordIn(suffix, content) ==
    IF suffix = "safetensors"
    THEN (IF "__metadata__" \in DOMAIN content.data.v
          THEN content.data.v["__metadata__"].v ELSE <<>>)
    ELSE content.data.v
Contribution(suffix, content) ==
    IF content.st = "json" /\ RecordIn(suffix, content) # <<>>
    THEN <<RecordIn(suffix, content)>> ELSE <<>>

\* C16: the list get_metadata_list returns starts with the hint record of
\* the file name, the empty mapping when hints has none, and goes on with
\* the non-empty records of the existing sources in the order civitai.info,
\* cm-info.json, json, safetensors header, and nothing else.
C16_HintThenSourcesInOrder ==
    (Returned("get_metadata_list") /\ ret.k = "return") =>
        /\ ret.v[1] = (IF call.target.name \in DOMAIN hints
                       THEN hints[call.target.name] ELSE <<>>)
        /\ Tail(ret.v) = Contribution("civitai.info", fs[call.target]["civitai.info"])
                         \o Contribution("cm-info.json", fs[call.target]["cm-info.json"])
                         \o Contribution("json", fs[call.target]["json"])
                         \o Contribution("safetensors", fs[call.target]["safetensors"])

\* A hint record, then the records of civitai.info, json and the header,
\* the cm-info.json record being empty
C16_Witness ==
    /\ Returned("get_metadata_list") /\ ret.k = "return"
    /\ Len(ret.v) = 4
    /\ ret.v[1] # <<>>
    /\ fs[call.target]["cm-info.json"].st = "json"

\* C17: in every state of a scan the hints mapping is the mapping that was
\* loaded from the hint file: no pass over any sequence of files, the same
\* file twice included, changes a hint record or the keyword list it holds.
C17_HintsAsLoaded == hints = args.hint

(***************************************************************************)
(* __main__ of scan_model.py and of lora_scan.py: the check of the flag    *)
(* dependencies and the passes the options select.  An option is None or   *)
(* Some(value); a pass is recorded in out when it is called (it opens its  *)
(* output whatever the targets hold).                                      *)
(***************************************************************************)
Paths == {None, Some(<<"o">>)}
Roots == {None, Some(<<>>), Some(<<"r">>)}

\* bool(x) of an option value: None and '' are false, a Path is true
Set(option) == option # None /\ option[1] # <<>>

\* Counts of --variant in lora_scan.py
MaxVariantCount == 2

ScanOptions ==
    [prog : {"scan_model.py"}, summary : Paths, dump : Paths, jinja : Paths, list : Paths,
     variant : Paths, singular : Paths, check_place : BOOLEAN, validate : Paths,
     list_root : Roots, variant_root : Roots, singular_root : Roots]
LoraOptions ==
    [prog : {"lora_scan.py"}, summary : Paths, dump : Paths, jinja : Paths, yaml : Paths,
     variant : 0..MaxVariantCount]

\* The messages of scan_model.py's check, in order
Requires(root, output, text) == IF Set(root) /\ ~Set(output) THEN <<text>> ELSE <<>>
message(a) ==
    Requires(a.list_root, a.list, "--list-root requires --list")
    \o Requires(a.variant_root, a.variant, "--variant-root requires --variant")
    \o Requires(a.singular_root, a.singular, "--singular-root requires --singular")

\* The calls of scan_model.py after the check, in order
When(condition, pass) == IF condition THEN <<pass>> ELSE <<>>
ScanPasses(a) ==
    When(Set(a.jinja), "override_list")
    \o (IF Set(a.list) \/ Set(a.variant) \/ Set(a.singular) \/ a.check_place
        THEN <<"yaml_fragment_read">>
             \o When(a.check_place, "check_place")
             \o When(Set(a.list), "yaml_fragment_list")
             \o When(Set(a.variant), "yaml_fragment_variant")
             \o When(Set(a.singular), "yaml_fragment_singular")
        ELSE <<>>)
    \o When(Set(a.validate), "validate_wildcard")
    \o When(Set(a.dump), "dump")
    \o When(Set(a.summary)
            \/ (~Set(a.jinja) /\ ~Set(a.list) /\ ~Set(a.variant) /\ ~Set(a.singular)
                /\ ~a.check_place /\ ~Set(a.validate) /\ ~Set(a.dump)),
            "summary")

\* The calls of lora_scan.py after the check, in order
LoraPasses(a) ==
    When(Set(a.jinja), "override_list")
    \o When(Set(a.yaml), "yaml_fragment")
    \o When(Set(a.dump), "dump")
    \o When(Set(a.summary) \/ (~Set(a.jinja) /\ ~Set(a.yaml) /\ ~Set(a.dump)), "summary")

Printed(text) == [kind |-> "print", text |-> text]
Usage == [kind |-> "print_help"]
Called(pass) == [kind |-> "call", pass |-> pass]

InitMain ==
    /\ args \in ScanOptions \cup LoraOptions
    /\ hints = <<>> /\ fs = <<>> /\ todo = <<>> /\ out = <<>> /\ log = <<>>
    /\ pc = "main" /\ weight_regexps = InitialRegexps
    /\ call = NoCall /\ ret = Pending /\ fragment = NoFragment
    /\ eval_data = <<>> /\ heap = <<>>

\* scan_model.py from parse_args to the first pass: exit(1) ends the run
ScanMain ==
    /\ pc = "main" /\ args.prog = "scan_model.py"
    /\ IF message(args) # <<>>
       THEN /\ out' = <<Printed(message(args)), Usage>>
            /\ pc' = "exited"
            /\ ret' = Return(1)
            /\ todo' = todo
       ELSE /\ pc' = "passes"
            /\ todo' = ScanPasses(args)
            /\ UNCHANGED <<out, ret, eval_data, heap>>
    /\ UNCHANGED <<hints, fs, log, weight_regexps, call, args, fragment, eval_data, heap>>

\* lora_scan.py from parse_args to the first pass: the statement `exit`
\* names the builtin and does not call it
LoraMain ==
    /\ pc = "main" /\ args.prog = "lora_scan.py"
    /\ out' = IF args.variant # 0 /\ ~Set(args.yaml)
              THEN <<Printed(<<"--variant requires --yaml">>), Usage>> ELSE out
    /\ pc' = "passes"
    /\ todo' = LoraPasses(args)
    /\ UNCHANGED <<hints, fs, log, weight_regexps, call, ret, args, fragment, eval_data, heap>>

\* The next call of __main__
RunPass ==
    /\ pc = "passes" /\ todo # <<>>
    /\ out' = Append(out, Called(Head(todo)))
    /\ todo' = Tail(todo)
    /\ UNCHANGED <<hints, fs, log, pc, weight_regexps, call, ret, args, fragment, eval_data, heap>>

\* The end of the script: exit status 0
MainEnd ==
    /\ pc = "passes" /\ todo = <<>>
    /\ pc' = "exited"
    /\ ret' = Return(0)
    /\ UNCHANGED <<hints, fs, todo, out, log, weight_regexps, call, args, fragment, eval_data, heap>>

NextMain == ScanMain \/ LoraMain \/ RunPass \/ MainEnd

SpecMain == InitMain /\ [][NextMain]_vars

\* A dependent flag is given without its output flag
Dependent(a) ==
    IF a.prog = "scan_model.py"
    THEN \/ a.list_root # None /\ a.list = None
         \/ a.variant_root # None /\ a.variant = None
         \/ a.singular_root # None /\ a.singular = None
    ELSE a.variant # 0 /\ a.yaml = None

\* C18: when a dependent flag is given without its output flag, the program
\* prints the message and the usage and exits with a non-zero status before
\* any pass is called.
C18_DependencyViolationStopsRun ==
    (pc # "main" /\ Dependent(args)) =>
        /\ pc = "exited" /\ ret.v # 0
        /\ Len(out) = 2 /\ out[1].kind = "print" /\ out[2] = Usage

(***************************************************************************)
(* Runs of scan_model.py over trees that hold other regular files than     *)
(* model files, with targets that name such a file or no file at all       *)
(***************************************************************************)
\* d/n.json alone: a companion without its model file
L_Orphan ==
    Beside(Absent, Absent, Json(JMap("baseModel" :> JStr(S_Pony))), Absent)
WalkCompanions == {L_Bare, L_Tag, L_Orphan}
WalkTrees(n) ==
    UNION {[S -> WalkCompanions] :
              S \in {S \in SUBSET {D_N, D_E_N} : S # {} /\ Cardinality(S) <= n}}

D_N_Json == Sibling(D_N, "json")
D_Missing == [parent |-> <<<<"d">>>>, name |-> <<"m">> \o Suffix]
WalkTargetLists == {<<D>>, <<D_N>>, <<D_N_Json>>, <<D, D_N_Json>>, <<D_Missing>>}

InitWalk ==
    /\ fs \in WalkTrees(MaxModels)
    /\ \E target \in WalkTargetLists, o \in OptionSets :
          args = ScanArgs(target, <<>>, o)
    /\ hints = <<>>
    /\ todo = <<>>
    /\ out = <<>>
    /\ log = <<>>
    /\ pc = "main"
    /\ weight_regexps = InitialRegexps
    /\ fragment = NoFragment
    /\ call = NoCall
    /\ ret = Pending
    /\ eval_data = <<>> /\ heap = <<>>

SpecWalk == InitWalk /\ [][NextYaml]_vars

\* The regular files named by a target or lying under one whose names end
\* in .safetensors
Targets == {args.target[i] : i \in 1..Len(args.target)}
ModelFilesOfTargets ==
    {f \in RegularFiles :
        /\ f \in Targets \/ \E target \in Targets : IsPrefix(Full(target), f.parent)
        /\ filter_tensors(f.name)}
Summarised == {out[i].target : i \in {j \in 1..Len(out) : out[j].kind = "filename"}}

\* C19: the files the summary and the YAML read process are regular files
\* with the .safetensors extension named by or lying under the targets, and
\* once a pass is over it has processed every such file.
C19_ProcessedAreTheModelFiles ==
    /\ Summarised \subseteq ModelFilesOfTargets
    /\ ListedFiles \subseteq ModelFilesOfTargets
    /\ ReadDone => ModelFilesOfTargets \subseteq ListedFiles
    /\ (pc = "done" /\ Wanted("summary")) => ModelFilesOfTargets \subseteq Summarised

(***************************************************************************)
(* The cross-reference validator (--validate)                              *)
(***************************************************************************)
LoraOpen == <<"<", "l", "o", "r", "a", ":">>
WeightChars == Digits \cup {"."}

\* The first position from i on whose character is in, or is not in, cls;
\* Len(line) + 1 when there is none
FirstIn(line, i, cls) ==
    IF \E k \in i..Len(line) : line[k] \in cls
    THEN CHOOSE k \in i..Len(line) : line[k] \in cls /\ \A j \in i..(k - 1) : line[j] \notin cls
    ELSE Len(line) + 1
FirstNotIn(line, i, cls) ==
    IF \E k \in i..Len(line) : line[k] \notin cls
    THEN CHOOSE k \in i..Len(line) : line[k] \notin cls /\ \A j \in i..(k - 1) : line[j] \in cls
    ELSE Len(line) + 1

\* Where a match of <lora:([^>:]*):[\d.]*> that starts at i ends; 0 when
\* there is none.  name_end is the colon after group 1.
TagEnd(line, name_end) ==
    IF name_end <= Len(line) /\ line[name_end] = ":"
       /\ FirstNotIn(line, name_end + 1, WeightChars) <= Len(line)
       /\ line[FirstNotIn(line, name_end + 1, WeightChars)] = ">"
    THEN FirstNotIn(line, name_end + 1, WeightChars) ELSE 0
MatchEnd(line, i) ==
    IF i + 5 <= Len(line) /\ SubSeq(line, i, i + 5) = LoraOpen
    THEN TagEnd(line, FirstIn(line, i + 6, {">", ":"})) ELSE 0

\* re.finditer over a line from position i on: the matches as pairs of
\* group(0) and group(1)
RECURSIVE Finditer(_, _)
Finditer(line, i) ==
    IF i > Len(line) THEN <<>>
    ELSE IF MatchEnd(line, i) = 0 THEN Finditer(line, i + 1)
    ELSE <<[text |-> SubSeq(line, i, MatchEnd(line, i)),
            name |-> SubSeq(line, i + 6, FirstIn(line, i + 6, {">", ":"}) - 1)]>>
         \o Finditer(line, MatchEnd(line, i) + 1)

Checking(wildcard) == [kind |-> "checking", wildcard |-> wildcard]
NotInTarget(wildcard, text) == [kind |-> "not_in_target", wildcard |-> wildcard, text |-> text]

\* The lines validate_wildcard_file prints for the matches of one line
Unmatched(wildcard, matches, loras) ==
    [i \in 1..Len(SelectSeq(matches, LAMBDA m : m.name \notin loras)) |->
        NotInTarget(wildcard, SelectSeq(matches, LAMBDA m : m.name \notin loras)[i].text)]

RECURSIVE ValidateLines(_, _, _)
ValidateLines(wildcard, lines, loras) ==
    IF lines = <<>> THEN <<>>
    ELSE Unmatched(wildcard, Finditer(Head(lines), 1), loras)
         \o ValidateLines(wildcard, Tail(lines), loras)

\* validate_wildcard_file(wildcard, loras): what it prints
validate_wildcard_file(wildcard, lines, loras) ==
    <<Checking(wildcard)>> \o ValidateLines(wildcard, lines, loras)

\* The set loras of validate_wildcard: the stems of the .safetensors files
\* under a directory, the stem of any other target
Loras(models) ==
    UNION {IF is_dir(models[i]) THEN {Stem(f.name) : f \in Walk(models[i])}
           ELSE {Stem(models[i].name)} : i \in 1..Len(models)}

\* The files of the wildcard targets: every file under a directory
RECURSIVE WildcardWork(_)
WildcardWork(wildcards) ==
    IF wildcards = <<>> THEN <<>>
    ELSE IF is_dir(Head(wildcards))
         THEN <<{f \in RegularFiles : IsPrefix(Full(Head(wildcards)), f.parent)}>>
              \o WildcardWork(Tail(wildcards))
    ELSE <<{Head(wildcards)}>> \o WildcardWork(Tail(wildcards))

(***************************************************************************)
(* Runs of scan_model.py with --validate                                   *)
(***************************************************************************)
MaxTags == 2

Text(lines) == [st |-> "text", lines |-> lines]
W_Unknown == <<"<", "l", "o", "r", "a", ":", "m", ":", "1", ">">>
W_NoWeight == <<"<", "l", "o", "r", "a", ":", "n", "-", "v", "2", ":", ">">>
W_Signed == <<"<", "l", "o", "r", "a", ":", "x", ":", "-", "1", ">">>
W_Plain == <<"a", ",", " ">>
WildcardTokens == {T_Lora, W_Unknown, W_NoWeight, W_Signed, W_Plain}

RECURSIVE Concat(_)
Concat(tokens) == IF tokens = <<>> THEN <<>> ELSE Head(tokens) \o Concat(Tail(tokens))
WildcardLines(n) == {Concat(tokens) : tokens \in StringsUpTo(WildcardTokens, n)}

W == [parent |-> <<>>, name |-> <<"w">>]
W_A == [parent |-> <<<<"w">>>>, name |-> <<"a">>]
W_B == [parent |-> <<<<"w">>>>, name |-> <<"b">>]
ValidateTrees == {(D_N :> L_Bare), (D_N :> L_Bare @@ D_NV2 :> L_Sdxl)}
ValidateTargetLists == {<<D>>, <<D_N>>, <<D_N_Json>>, <<D_Missing>>}
ValidateLists == {<<W_A>>, <<W>>}

InitValidate ==
    /\ \E tree \in ValidateTrees, first \in WildcardLines(MaxTags),
          second \in {<<>>, W_Unknown} :
          fs = tree @@ (W_A :> Text(<<first, second>>)) @@ (W_B :> Text(<<W_Unknown>>))
    /\ \E target \in ValidateTargetLists, o \in OptionSets, wildcards \in ValidateLists :
          args = [ScanArgs(target, <<>>, o) EXCEPT !.validate = Some(wildcards)]
    /\ hints = <<>>
    /\ todo = <<>>
    /\ out = <<>>
    /\ log = <<>>
    /\ pc = "main"
    /\ weight_regexps = InitialRegexps
    /\ fragment = NoFragment
    /\ call = NoCall
    /\ ret = Pending
    /\ eval_data = <<>> /\ heap = <<>>

\* validate_wildcard up to its second loop: loras is built
ValidateWildcard ==
    /\ pc = "validate"
    /\ call' = [fn |-> "validate_wildcard", loras |-> Loras(args.target)]
    /\ todo' = WildcardWork(args.validate[1])
    /\ pc' = "validate_file"
    /\ UNCHANGED <<hints, fs, out, log, weight_regexps, ret, args, fragment, eval_data, heap>>

\* validate_wildcard_file on the next wildcard file
ValidateWildcardFile ==
    /\ pc = "validate_file" /\ todo # <<>>
    /\ \E wildcard \in Head(todo) :
          /\ out' = out \o validate_wildcard_file(wildcard, fs[wildcard].lines, call.loras)
          /\ todo' = Rest(todo, wildcard)
    /\ UNCHANGED <<hints, fs, log, pc, weight_regexps, call, ret, args, fragment, eval_data, heap>>

ValidateWildcardEnd ==
    /\ pc = "validate_file" /\ todo = <<>>
    /\ pc' = PassAfter(6)
    /\ todo' = Enter(PassAfter(6))
    /\ UNCHANGED <<hints, fs, out, log, weight_regexps, call, ret, args, fragment, eval_data, heap>>

NextValidate == NextYaml \/ ValidateWildcard \/ ValidateWildcardFile \/ ValidateWildcardEnd

SpecValidate == InitValidate /\ [][NextValidate]_vars

\* The tag references <lora:NAME:WEIGHT> of a wildcard file: line, first
\* and last position, and the position of the colon after NAME
IsTag(line, i, c, e) ==
    /\ i + 5 < c /\ c < e
    /\ SubSeq(line, i, i + 5) = LoraOpen
    /\ \A k \in (i + 6)..(c - 1) : line[k] \notin {">", ":"}
    /\ line[c] = ":"
    /\ \A k \in (c + 1)..(e - 1) : line[k] \in WeightChars
    /\ line[e] = ">"
TagsOf(lines) ==
    UNION {{[text |-> SubSeq(lines[l], i, e), name |-> SubSeq(lines[l], i + 6, c - 1)] :
               <<i, c, e>> \in {t \in (1..Len(lines[l])) \X (1..Len(lines[l])) \X (1..Len(lines[l])) :
                                   IsTag(lines[l], t[1], t[2], t[3])}} :
              l \in 1..Len(lines)}

\* The stems of the scanned model files, and what was reported for a file
ScannedStems == {Stem(f.name) : f \in ModelFilesOfTargets}
ReportedFor(wildcard) ==
    {out[i].text : i \in {j \in 1..Len(out) :
                            out[j].kind = "not_in_target" /\ out[j].wildcard = wildcard}}
Checked == {out[i].wildcard : i \in {j \in 1..Len(out) : out[j].kind = "checking"}}

\* C20: for every wildcard file the validator has checked, the tag
\* references it has reported are the tag references <lora:NAME:WEIGHT> of
\* the file whose NAME is not the stem of a scanned model file; and the
\* validator does not end the run.
C20_ReportedIffNotAScannedStem ==
    /\ \A wildcard \in Checked :
          ReportedFor(wildcard) =
              {tag.text : tag \in {t \in TagsOf(fs[wildcard].lines) : t.name \notin ScannedStems}}
    /\ call.fn = "validate_wildcard" => pc # "aborted"

(***************************************************************************)
(* Runs of scan_model.py over trees in which a companion file is no JSON   *)
(* or the model file is shorter than its 8-byte length prefix              *)
(***************************************************************************)
\* d/n.json is no JSON; the model file has fewer than 8 bytes; the
\* .civitai.info file is no JSON and the model file is good
L_BadJson == Beside(Absent, Absent, Malformed, BareHeader)
L_Truncated == Beside(Absent, Json(JMap("sd version" :> JStr(S_SDXL))), Absent, Malformed)
L_BadInfo == Beside(Malformed, Absent, Absent, HeaderWith("ss_base_model_version" :> JStr(S_Foo)))
ParseCompanions == {L_Bare, L_Sdxl, L_BadJson, L_Truncated, L_BadInfo}
ParseTrees(n) ==
    UNION {[S -> ParseCompanions] :
              S \in {S \in SUBSET {D_N, D_NV2} : S # {} /\ Cardinality(S) <= n}}
ParseTargetLists == {<<D>>, <<D_N>>, <<D_N, D_NV2>>, <<D_NV2, D>>}

InitParse ==
    /\ fs \in ParseTrees(MaxModels)
    /\ \E target \in ParseTargetLists, o \in OptionSets :
          args = ScanArgs(target, <<>>, o)
    /\ hints = <<>>
    /\ todo = <<>>
    /\ out = <<>>
    /\ log = <<>>
    /\ pc = "main"
    /\ weight_regexps = InitialRegexps
    /\ fragment = NoFragment
    /\ call = NoCall
    /\ ret = Pending
    /\ eval_data = <<>> /\ heap = <<>>

SpecParse == InitParse /\ [][NextYaml]_vars

\* A file one of whose existing sources cannot be parsed; the files a pass
\* has recorded or printed something for
Unreadable(target) == \E suffix \in DOMAIN SuffixOf : FilesOf(target)[suffix].st = "malformed"
Recorded ==
    ListedFiles \cup VariantFiles \cup DOMAIN fragment[3]
    \cup {out[i].target : i \in {j \in 1..Len(out) : out[j].kind \notin {"list", "variant"}}}

\* C21: for every file of the targets with a companion that is no JSON or
\* a model file whose length prefix cannot be read, get_metadata_list
\* raises; no pass records or prints anything for such a file; a run over
\* such a file never gets past the pass that reads it first (no document is
\* written, the run does not end normally); and once an exception has ended
\* the run, nothing more happens.
C21_MalformedSourceIsFatal ==
    /\ [](\A f \in Scanned : Unreadable(f) => LoadedList(f).k = "raise" /\ f \notin Recorded)
    /\ []((\E f \in Scanned : Unreadable(f)) =>
             /\ pc \in {"main", "aborted", IF Wanted("yaml_read") THEN "yaml_read" ELSE "summary"}
             /\ \A i \in 1..Len(out) : out[i].kind \notin {"list", "variant"}
             /\ log = <<>>)
    /\ [][pc # "aborted"]_vars

\* A run over d/n.safetensors (good) and d/n-v2.safetensors (unreadable) has
\* processed the first and has been ended by the second
C21_Witness ==
    /\ pc = "aborted"
    /\ ~Unreadable(D_N) /\ Unreadable(D_NV2)
    /\ D_N \in Recorded /\ D_NV2 \notin Recorded
    /\ todo # <<>> /\ D_NV2 \in Head(todo)

\* A file whose metadata list loads and holds, under the base-model keys,
\* no value that is a key of normalize_map
NoMappedValue(target) ==
    /\ get_metadata_list(target, fs[target], hints).k = "return"
    /\ \A ki \in 1..Len(base_model_keys) :
          \A di \in 1..Len(get_metadata_list(target, fs[target], hints).v) :
              LET value == DictGet(get_metadata_list(target, fs[target], hints).v[di],
                                   base_model_keys[ki], JNull)
              IN ~(value.t = "str" /\ NormalizeIdx(value.v) # {})

\* C22: in the --jinja pass, a file whose records hold no base-model value
\* mapped by normalize_map (no base-model key, or an unmapped value of any
\* JSON type) is classified as unkn with a warning that names it, and the
\* run is never ended by an exception raised on such a file.
C22_UnclassifiableIsUnkn ==
    \A target \in DOMAIN fs :
        NoMappedValue(target) =>
            /\ target \in Visited =>
                  /\ ActualOf(target) = "unkn"
                  /\ \E i \in 1..Len(log) : log[i] = target
            /\ pc = "aborted" /\ target \in todo =>
                  override_list_file(target, fs[target], hints).k = "return"

(***************************************************************************)
(* llm_eval.py: distance and average                                       *)
(*                                                                         *)
(* A float that is the quotient of two integers is the pair of them; 0.0   *)
(* is 0 / 1.  Strings are sequences of characters; offsets are Python's    *)
(* (from 0, the end excluded).                                             *)
(***************************************************************************)
Quotient(num, den) == [num |-> num, den |-> den]
SameFloat(p, q) == p.num * q.den = q.num * p.den

\* a[i:i+k] == b[j:j+k]
SameAt(a, b, i, j, k) == \A d \in 1..k : a[i + d] = b[j + d]

\* SequenceMatcher.find_longest_match(alo, ahi, blo, bhi) without junk
\* (isjunk is None and both strings are shorter than 200): the longest
\* block, of those the one that starts earliest in a, of those the one that
\* starts earliest in b; (alo, blo, 0) when nothing matches
find_longest_match(a, b, alo, ahi, blo, bhi) ==
    CHOOSE m \in {x \in (alo..ahi) \X (blo..bhi) \X (0..(ahi - alo)) :
                     x[1] + x[3] <= ahi /\ x[2] + x[3] <= bhi /\ SameAt(a, b, x[1], x[2], x[3])} :
        \A o \in {x \in (alo..ahi) \X (blo..bhi) \X (0..(ahi - alo)) :
                     x[1] + x[3] <= ahi /\ x[2] + x[3] <= bhi /\ SameAt(a, b, x[1], x[2], x[3])} :
            \/ m[3] > o[3]
            \/ m[3] = o[3] /\ m[1] < o[1]
            \/ m[3] = o[3] /\ m[1] = o[1] /\ m[2] <= o[2]

\* The queue of get_matching_blocks, its blocks in sorted order
RECURSIVE MatchingBlocks(_, _, _, _, _, _)
MatchingBlocks(a, b, alo, ahi, blo, bhi) ==
    LET m == find_longest_match(a, b, alo, ahi, blo, bhi)
    IN IF m[3] = 0 THEN <<>>
       ELSE (IF alo < m[1] /\ blo < m[2] THEN MatchingBlocks(a, b, alo, m[1], blo, m[2]) ELSE <<>>)
            \o <<m>>
            \o (IF m[1] + m[3] < ahi /\ m[2] + m[3] < bhi
                THEN MatchingBlocks(a, b, m[1] + m[3], ahi, m[2] + m[3], bhi) ELSE <<>>)

\* Adjacent blocks are collapsed into one
RECURSIVE Collapsed(_, _)
Collapsed(blocks, m) ==
    IF blocks = <<>> THEN (IF m[3] > 0 THEN <<m>> ELSE <<>>)
    ELSE IF m[1] + m[3] = Head(blocks)[1] /\ m[2] + m[3] = Head(blocks)[2]
         THEN Collapsed(Tail(blocks), <<m[1], m[2], m[3] + Head(blocks)[3]>>)
         ELSE (IF m[3] > 0 THEN <<m>> ELSE <<>>) \o Collapsed(Tail(blocks), Head(blocks))

get_matching_blocks(a, b) ==
    Collapsed(MatchingBlocks(a, b, 0, Len(a), 0, Len(b)), <<0, 0, 0>>)
    \o << <<Len(a), Len(b), 0>> >>

\* The loop of get_opcodes from block n on, (i, j) being where the last
\* block ended
RECURSIVE OpcodesFrom(_, _, _)
OpcodesFrom(blocks, i, j) ==
    IF blocks = <<>> THEN <<>>
    ELSE LET ai == Head(blocks)[1]
             bj == Head(blocks)[2]
             size == Head(blocks)[3]
         IN (IF i < ai /\ j < bj THEN << <<"replace", i, ai, j, bj>> >>
             ELSE IF i < ai THEN << <<"delete", i, ai, j, bj>> >>
             ELSE IF j < bj THEN << <<"insert", i, ai, j, bj>> >>
             ELSE <<>>)
            \o (IF size > 0 THEN << <<"equal", ai, ai + size, bj, bj + size>> >> ELSE <<>>)
            \o OpcodesFrom(Tail(blocks), ai + size, bj + size)

get_opcodes(a, b) == OpcodesFrom(get_matching_blocks(a, b), 0, 0)

\* The values of the parameter penalty: a tuple of strings, a string, a
\* number or None
PenaltyTuple(types) == [t |-> "tuple", v |-> types]
DefaultPenalty == PenaltyTuple({"insert", "delete", "replace"})
TagText ==
    ("replace" :> <<"r", "e", "p", "l", "a", "c", "e">> @@ "delete" :> <<"d", "e", "l", "e", "t", "e">>
     @@ "insert" :> <<"i", "n", "s", "e", "r", "t">> @@ "equal" :> <<"e", "q", "u", "a", "l">>)

\* type in penalty: membership in a tuple, substring of a string
InPenalty(type, penalty) ==
    IF penalty.t = "tuple" THEN type \in penalty.v ELSE Contains(penalty.v, TagText[type])

\* reduce(reducer, opcodes, value)
RECURSIVE Reduced(_, _, _)
Reduced(opcodes, penalty, value) ==
    IF opcodes = <<>> THEN value
    ELSE LET element == Head(opcodes)
             count == element[3] - element[2] + element[5] - element[4]
         IN Reduced(Tail(opcodes), penalty,
                    <<value[1] + (IF InPenalty(element[1], penalty) THEN 0 ELSE count),
                      value[2] + count>>)

\* distance(before, after, penalty): `in` raises TypeError on a penalty
\* that is no container as soon as there is an opcode to reduce
DistanceOf(opcodes, penalty) ==
    IF opcodes # <<>> /\ penalty.t \notin {"tuple", "str"} THEN Raise("TypeError")
    ELSE IF Reduced(opcodes, penalty, <<0, 0>>)[2] = 0 THEN Raise("ZeroDivisionError")
    ELSE Return(Quotient(Reduced(opcodes, penalty, <<0, 0>>)[1],
                         Reduced(opcodes, penalty, <<0, 0>>)[2]))

distance(before, after, penalty) == DistanceOf(get_opcodes(before, after), penalty)

\* reduce(reducer, sequence, value) of average
RECURSIVE Averaged(_, _)
Averaged(sequence, value) ==
    IF sequence = <<>> THEN value
    ELSE Averaged(Tail(sequence), <<value[1] + Head(sequence), value[2] + 1>>)

\* A variant of average without the test for an empty sequence
average_unguarded(sequence) ==
    IF Averaged(sequence, <<0, 0>>)[2] = 0 THEN Raise("ZeroDivisionError")
    ELSE Return(Quotient(Averaged(sequence, <<0, 0>>)[1], Averaged(sequence, <<0, 0>>)[2]))

\* average(sequence): the elements are floats with integer values
average(sequence) ==
    IF Averaged(sequence, <<0, 0>>)[2] = 0 THEN Return(Quotient(0, 1))
    ELSE Return(Quotient(Averaged(sequence, <<0, 0>>)[1], Averaged(sequence, <<0, 0>>)[2]))

MaxText == 3
MaxValues == 3

Letters == {"a", "b"}
Texts(n) == UNION {[1..k -> Letters] : k \in 0..n}
Omitted == [t |-> "omitted", v |-> <<>>]
Penalties ==
    {Omitted, DefaultPenalty, PenaltyTuple({"delete", "replace"}), PenaltyTuple({"equal", "delete"}),
     JStr(<<"d", "e", "f", "a", "u", "l", "t">>), JStr(TagText["delete"]), JStr(TagText["insert"]),
     JStr(<<>>), JStr(<<"i", "n", "v", "a", "l", "i", "d">>), JNum(5), JNull}
DistanceCalls(n) ==
    [fn : {"distance"}, before : Texts(n), after : Texts(n), penalty : Penalties]
Values == {0 - 1, 0, 2, 3}
AverageCalls(n) == [fn : {"average"}, sequence : UNION {[1..k -> Values] : k \in 0..n}]

InitEval ==
    /\ call \in DistanceCalls(MaxText) \cup AverageCalls(MaxValues)
    /\ ret = Pending
    /\ hints = <<>> /\ fs = <<>> /\ todo = {} /\ out = <<>> /\ log = <<>>
    /\ pc = "call" /\ weight_regexps = InitialRegexps
    /\ args = NoArgs /\ fragment = NoFragment
    /\ eval_data = <<>> /\ heap = <<>>

Distance ==
    /\ pc = "call" /\ call.fn = "distance"
    /\ ret' = distance(call.before, call.after,
                       IF call.penalty = Omitted THEN DefaultPenalty ELSE call.penalty)
    /\ pc' = "returned"
    /\ UNCHANGED <<hints, fs, todo, out, log, weight_regexps, call, args, fragment, eval_data, heap>>

Average ==
    /\ pc = "call" /\ call.fn = "average"
    /\ ret' = average(call.sequence)
    /\ pc' = "returned"
    /\ UNCHANGED <<hints, fs, todo, out, log, weight_regexps, call, args, fragment, eval_data, heap>>

NextEval == Distance \/ Average

SpecEval == InitEval /\ [][NextEval]_vars

\* The characters of `before` the edit script removes and the characters
\* of `after` it adds
RECURSIVE Removed(_)
Removed(opcodes) ==
    IF opcodes = <<>> THEN 0
    ELSE (IF Head(opcodes)[1] \in {"replace", "delete"} THEN Head(opcodes)[3] - Head(opcodes)[2] ELSE 0)
         + Removed(Tail(opcodes))
RECURSIVE Added(_)
Added(opcodes) ==
    IF opcodes = <<>> THEN 0
    ELSE (IF Head(opcodes)[1] \in {"replace", "insert"} THEN Head(opcodes)[5] - Head(opcodes)[4] ELSE 0)
         + Added(Tail(opcodes))

P_default == JStr(<<"d", "e", "f", "a", "u", "l", "t">>)
P_delete == JStr(TagText["delete"])
P_insert == JStr(TagText["insert"])

\* C23: for a non-empty `before`, distance returns (removed + added) /
\* len(before) when penalty is 'default' or omitted, removed / len(before)
\* when it is 'delete' and added / len(before) when it is 'insert'.
C23_DistanceIsEditsOverLength ==
    pc = "returned" /\ call.fn = "distance" /\ call.before # <<>>
        /\ call.penalty \in {Omitted, P_default, P_delete, P_insert} =>
            /\ ret.k = "return"
            /\ SameFloat(ret.v,
                  Quotient((IF call.penalty = P_insert THEN 0
                            ELSE Removed(get_opcodes(call.before, call.after)))
                           + (IF call.penalty = P_delete THEN 0
                              ELSE Added(get_opcodes(call.before, call.after))),
                           Len(call.before)))

\* C24: distance raises ValueError whenever `before` is the empty string,
\* and whenever penalty is none of 'default', 'insert' and 'delete' (the
\* empty string, another string, a number or None).
C24_DistanceValidatesInputs ==
    pc = "returned" /\ call.fn = "distance" =>
        /\ call.before = <<>> => ret = Raise("ValueError")
        /\ call.penalty \in {JStr(<<>>), JStr(<<"i", "n", "v", "a", "l", "i", "d">>), JNum(5), JNull} =>
              ret = Raise("ValueError")

\* The sum of the elements
RECURSIVE Total(_)
Total(sequence) == IF sequence = <<>> THEN 0 ELSE Head(sequence) + Total(Tail(sequence))

\* C25: average returns 0.0 for an empty sequence and the sum of the
\* elements divided by their number for a non-empty one, and never raises.
C25_AverageIsTheMean ==
    pc = "returned" /\ call.fn = "average" =>
        /\ ret.k = "return"
        /\ ret.v.den # 0
        /\ SameFloat(ret.v, IF call.sequence = <<>> THEN Quotient(0, 1)
                            ELSE Quotient(Total(call.sequence), Len(call.sequence)))

\* average has returned 0.0 for the empty sequence
C25_Witness ==
    pc = "returned" /\ call.fn = "average" /\ call.sequence = <<>> /\ ret = Return(Quotient(0, 1))

\* C26: no call of get_weight changes the list weight_regexps (the other
\* tables, normalize_map, model_key_map and the key-path lists, are
\* assigned once and never written).
C26_TablesAreConstant == weight_regexps = InitialRegexps

(***************************************************************************)
(* The two loops of get_normalized_name, one iteration at a step.  call    *)
(* holds the locals name and flag; log holds, for each iteration done, the *)
(* loop it belongs to, the name it started from and the count of re.subn.  *)
(***************************************************************************)
MaxLoopLen == 5
LoopLetters == {"a", "-", "1"}
\* Names with the parenthesized form and with the other delimiters
OtherNames ==
    {<<"a", "(", "1", ")">>, <<"a", "-", "1", "(", "x", "l", ")">>, <<"a", ".", "1", ".", "b", "_", "v", "2">>,
     <<"a", "_", "x", "l", "1", "_", "b", " ", "1", ".", "5", "a">>}
\* No name of the model needs more iterations, the last one of each loop
\* included
MaxIterations == MaxLoopLen + 8

\* Where pattern_at_end matches, and where pattern_at_mid does from pos on
EndStarts(s) == {i \in 1..Len(s) : EndsAt(s, i)}
MidStarts(s, pos) == {i \in pos..Len(s) : MidClosers(s, i) # {}}
First(starts) == CHOOSE i \in starts : \A i2 \in starts : i <= i2

\* One re.subn(pattern_at_end, '', name): the pattern is anchored at the
\* end, so the leftmost match is the only one
SubnAtEnd(s) ==
    IF EndStarts(s) = {} THEN [name |-> s, count |-> 0]
    ELSE [name |-> SubSeq(s, 1, First(EndStarts(s)) - 1), count |-> 1]

\* The matches one re.subn(pattern_at_mid, r'\1', name) replaces, from
\* position pos on
RECURSIVE MidCount(_, _)
MidCount(s, pos) ==
    IF MidStarts(s, pos) = {} THEN 0
    ELSE 1 + MidCount(s, Farthest(MidClosers(s, First(MidStarts(s, pos)))) + 1)

\* A variant of SubnAtMid whose replacement is the whole match
SubnAtMid_whole_match(s) == [name |-> s, count |-> MidCount(s, 1)]

SubnAtMid(s) == [name |-> CollapseMidFrom(s, 1), count |-> MidCount(s, 1)]

InitLoop ==
    /\ call \in {[fn |-> "get_normalized_name", name |-> stem, flag |-> TRUE] :
                    stem \in StringsUpTo(LoopLetters, MaxLoopLen) \cup OtherNames}
    /\ ret = Pending
    /\ log = <<>>
    /\ pc = "at_end"
    /\ hints = <<>> /\ fs = <<>> /\ todo = {} /\ out = <<>>
    /\ weight_regexps = InitialRegexps
    /\ args = NoArgs /\ fragment = NoFragment
    /\ eval_data = <<>> /\ heap = <<>>

\* One iteration of the first loop
AtEndIteration ==
    /\ pc = "at_end" /\ call.flag /\ Len(log) < MaxIterations
    /\ \E r \in {SubnAtEnd(call.name)} :
          /\ call' = [call EXCEPT !.name = r.name, !.flag = r.count > 0]
          /\ log' = Append(log, [loop |-> "at_end", name |-> call.name, count |-> r.count])
    /\ UNCHANGED <<hints, fs, todo, out, pc, weight_regexps, ret, args, fragment, eval_data, heap>>

\* The first loop is left, flag is set for the second
AtEndDone ==
    /\ pc = "at_end" /\ ~call.flag
    /\ call' = [call EXCEPT !.flag = TRUE]
    /\ pc' = "at_mid"
    /\ UNCHANGED <<hints, fs, todo, out, log, weight_regexps, ret, args, fragment, eval_data, heap>>

\* One iteration of the second loop
AtMidIteration ==
    /\ pc = "at_mid" /\ call.flag /\ Len(log) < MaxIterations
    /\ \E r \in {SubnAtMid(call.name)} :
          /\ call' = [call EXCEPT !.name = r.name, !.flag = r.count > 0]
          /\ log' = Append(log, [loop |-> "at_mid", name |-> call.name, count |-> r.count])
    /\ UNCHANGED <<hints, fs, todo, out, pc, weight_regexps, ret, args, fragment, eval_data, heap>>

\* The second loop is left; the three substitutions and strip()
NormalizedNameReturn ==
    /\ pc = "at_mid" /\ ~call.flag
    /\ ret' = Return(Strip(CollapseRunsFrom(StripSpecial(StripLeadingHyphen(call.name)), 1)))
    /\ pc' = "returned"
    /\ UNCHANGED <<hints, fs, todo, out, log, weight_regexps, call, args, fragment, eval_data, heap>>

NextLoop == AtEndIteration \/ AtEndDone \/ AtMidIteration \/ NormalizedNameReturn

SpecLoop == InitLoop /\ [][NextLoop]_vars

\* The interpreter goes on executing the function until it returns
SpecLoopLive == SpecLoop /\ WF_vars(NextLoop)

\* The name the function was called with, the name an iteration ended
\* with, and the iterations of one loop
InputName == IF log = <<>> THEN call.name ELSE log[1].name
NameAfter(i) == IF i = Len(log) THEN call.name ELSE log[i + 1].name
IterationsOf(loop) == {i \in 1..Len(log) : log[i].loop = loop}

\* Each iteration done so far that substituted left a strictly shorter
\* name; each loop made at most len(name) substituting iterations and, for
\* a name that is not empty, at most len(name) iterations with the one that
\* ended it
LoopsShorten ==
    /\ \A i \in 1..Len(log) :
          IF log[i].count > 0 THEN Len(NameAfter(i)) < Len(log[i].name)
          ELSE NameAfter(i) = log[i].name
    /\ \A loop \in {"at_end", "at_mid"} :
          /\ Cardinality({i \in IterationsOf(loop) : log[i].count > 0}) <= Len(InputName)
          /\ InputName # <<>> => Cardinality(IterationsOf(loop)) <= Len(InputName)

\* C30: get_normalized_name returns for every name, after iterations of
\* its two loops each of which, when it substituted, strictly shortened the
\* name, at most len(name) of them in either loop; the result is the one of
\* the function computed in one go.
C30_LoopsTerminate ==
    <>(pc = "returned" /\ LoopsShorten /\ ret = Return(get_normalized_name(InputName)))

\* The call on '-1--1' has returned after two iterations of the first loop
\* and two of the second, one of each with a substitution
C30_Witness ==
    /\ pc = "returned"
    /\ InputName = <<"-", "1", "-", "-", "1">>
    /\ Cardinality({i \in IterationsOf("at_end") : log[i].count > 0}) = 1
    /\ Cardinality({i \in IterationsOf("at_mid") : log[i].count > 0}) = 1
    /\ Len(log) = 4

(***************************************************************************)
(* Runs of scan_model.py with --variant and --singular                     *)
(***************************************************************************)
SingularOptionSets == OptionSets \cup {[o EXCEPT !.singular = TRUE] : o \in OptionSets}

InitSingular ==
    /\ fs \in Trees(MaxModels)
    /\ \E target \in {<<D>>, <<D_N, D>>}, o \in SingularOptionSets :
          args = ScanArgs(target, <<>>, o)
    /\ hints = <<>>
    /\ todo = <<>>
    /\ out = <<>>
    /\ log = <<>>
    /\ pc = "main"
    /\ weight_regexps = InitialRegexps
    /\ fragment = NoFragment
    /\ call = NoCall
    /\ ret = Pending
    /\ eval_data = <<>> /\ heap = <<>>

YamlFragmentSingular ==
    /\ pc = "singular"
    /\ \E r \in {yaml_fragment_singular(fragment[2], fragment[3], args.singular_root)} :
          /\ out' = Append(out, [kind |-> "singular", doc |-> r])
          /\ pc' = IF r.k = "raise" THEN "aborted" ELSE PassAfter(5)
          /\ todo' = IF r.k = "raise" THEN todo ELSE Enter(PassAfter(5))
    /\ UNCHANGED <<hints, fs, log, weight_regexps, call, ret, args, fragment, eval_data, heap>>

NextSingular == NextYaml \/ YamlFragmentSingular

SpecSingular == InitSingular /\ [][NextSingular]_vars

\* The groups of structure (b) with a block in the document --variant has
\* written, and those with one in the document of --singular
Docs(kind) == {i \in 1..Len(out) : out[i].kind = kind /\ out[i].doc.k = "return"}
InVariant(i) == DOMAIN out[i].doc.v.body
InSingular(i) ==
    {g \in (DOMAIN out[i].doc.v.body) \X (UNION {DOMAIN out[i].doc.v.body[c] : c \in DOMAIN out[i].doc.v.body}) :
        g[2] \in DOMAIN out[i].doc.v.body[g[1]]}
CodesOf(g) == DOMAIN fragment[2][g[1]][g[2]]
\* The leaf lines of a group as structure (b) and (c) give them
LeavesOf(g) == [b \in CodesOf(g) |-> Described(fragment[2][g[1]][g[2]][b], fragment[3])]

\* C29: the document of --variant holds the groups with more than one
\* base-model code and no other, the document of --singular the groups with
\* at most one and no other, each with the leaf lines of all its files;
\* when both are written every group is in exactly one of them.
C29_VariantAndSingularPartition ==
    /\ \A i \in Docs("variant") :
          /\ InVariant(i) = {g \in Groups(fragment[2]) : Cardinality(CodesOf(g)) > 1}
          /\ \A g \in InVariant(i) : out[i].doc.v.body[g] = LeavesOf(g)
    /\ \A j \in Docs("singular") :
          /\ InSingular(j) = {g \in Groups(fragment[2]) : Cardinality(CodesOf(g)) <= 1}
          /\ \A g \in InSingular(j) : out[j].doc.v.body[g[1]][g[2]] = LeavesOf(g)
    /\ \A i \in Docs("variant") : \A j \in Docs("singular") :
          /\ InVariant(i) \cap InSingular(j) = {}
          /\ InVariant(i) \cup InSingular(j) = Groups(fragment[2])
    /\ \A i \in 1..Len(out) : out[i].kind \in {"variant", "singular"} => out[i].doc.k = "return"

\* Both documents are written, each with a group: n and n-v2 of creator c
\* differ in their base model, d/e/n has no creator and no variant
C29_Witness ==
    /\ pc = "done"
    /\ \E i \in Docs("variant") : \E j \in Docs("singular") :
          /\ InVariant(i) # {} /\ InSingular(j) # {}
          /\ \E g \in InVariant(i) : Cardinality(CodesOf(g)) = 2

\* ---------------------------------------------------------------------
\* llm_eval.py: Response, the two extractors, and the fold of collect.
\* In this part a JSON string is an atom (JStr("gen")), a dict key is a
\* TLA+ string, and a Response held by the program refers to its prompts
\* list by the list's index in heap, so that two Responses can share one
\* list object.
\* ---------------------------------------------------------------------

\* Response(calls=..., valid_calls=..., prompts=...)
Response(calls, valid_calls, prompts) ==
    [calls |-> calls, valid_calls |-> valid_calls, prompts |-> prompts]

\* d.get(key, default) of a JSON object
GetOr(d, key, default) == DictGet(d.v, key, default)

NoFunctionName == JStr("")
NoList == JList(<<>>)

\* tool_spec.get('parameters', {}).get('properties', {}).keys()
allowed_params(tool_spec) ==
    DOMAIN GetOr(GetOr(tool_spec, "parameters", EmptyMap), "properties", EmptyMap).v

\* tool_spec.get('parameters', {}).get('required', [])
required_params(tool_spec) ==
    GetOr(GetOr(tool_spec, "parameters", EmptyMap), "required", NoList).v

\* all(argument in allowed_params ...) and all(required_param in arguments ...)
ArgumentsPass(tool_spec, arguments) ==
    /\ \A argument \in DOMAIN arguments.v : argument \in allowed_params(tool_spec)
    /\ \A i \in DOMAIN required_params(tool_spec) :
          required_params(tool_spec)[i].v \in DOMAIN arguments.v

\* Response.__iadd__ on the values of two Responses whose lists are not shared
Response_iadd(self, other) ==
    Response(self.calls + other.calls, self.valid_calls + other.valid_calls,
             self.prompts \o other.prompts)

check_tool_call(tool_spec, tool_call) ==
    IF tool_call.t # "map" THEN Raise("AttributeError")
    ELSE IF ~JEq(tool_spec.v["name"], GetOr(tool_call, "name", NoFunctionName))
    THEN Return(Response(1, 0, <<>>))
    ELSE LET parameters == GetOr(tool_call, "parameters", EmptyMap) IN
         IF parameters.t # "map" THEN Raise("AttributeError")
         ELSE IF ArgumentsPass(tool_spec, parameters)
         THEN Return(Response(1, 1, <<GetOr(parameters, "prompt", JNull)>>))
         ELSE Return(Response(1, 0, <<>>))

\* The text of a message is one of: a text with no brace pair (the slice
\* content[find("{"):rfind("}") + 1] is empty), a text whose slice json.loads
\* rejects, and a text whose slice is the JSON object `data`.
NoBraces == [st |-> "empty", data |-> JNull]

\* for tool_call in tool_calls: call_results += check_tool_call(...), left
\* by the first exception (except Exception: pass)
RECURSIVE CheckEach(_, _, _)
CheckEach(tool_spec, tool_calls, call_results) ==
    IF tool_calls = <<>> THEN call_results
    ELSE LET r == check_tool_call(tool_spec, Head(tool_calls)) IN
         IF r.k = "raise" THEN call_results
         ELSE CheckEach(tool_spec, Tail(tool_calls), Response_iadd(call_results, r.v))

extract_response_nonnative(response, tool_spec) ==
    LET content == GetOr(response.v["message"], "content", NoBraces) IN
    IF content.st # "json" THEN Response(0, 0, <<>>)
    ELSE LET result == content.data
             listed == GetOr(result, "tool_calls", JNull)
             tool_calls == IF Truthy(listed) THEN listed ELSE JList(<<result>>)
         IN  IF tool_calls.t # "list" THEN Response(0, 0, <<>>)
             ELSE CheckEach(tool_spec, tool_calls.v, Response(0, 0, <<>>))

\* The loop of extract_response_native: response_data.calls += 1, then the
\* checks; an AttributeError of .get or .keys leaves the function.
RECURSIVE NativeEach(_, _, _)
NativeEach(tool_spec, tool_calls, response_data) ==
    IF tool_calls = <<>> THEN Return(response_data)
    ELSE LET tool_call == Head(tool_calls)
             counted == Response(response_data.calls + 1, response_data.valid_calls, response_data.prompts)
         IN  IF tool_call.t # "map" THEN Raise("AttributeError")
             ELSE LET target_function == GetOr(tool_call, "function", EmptyMap) IN
                  IF target_function.t # "map" THEN Raise("AttributeError")
                  ELSE IF ~JEq(tool_spec.v["name"], GetOr(target_function, "name", NoFunctionName))
                  THEN NativeEach(tool_spec, Tail(tool_calls), counted)
                  ELSE LET arguments == GetOr(target_function, "arguments", EmptyMap) IN
                       IF arguments.t # "map" THEN Raise("AttributeError")
                       ELSE IF ArgumentsPass(tool_spec, arguments)
                       THEN NativeEach(tool_spec, Tail(tool_calls),
                                       Response(counted.calls, counted.valid_calls + 1,
                                                Append(counted.prompts, GetOr(arguments, "prompt", JNull))))
                       ELSE NativeEach(tool_spec, Tail(tool_calls), counted)

extract_response_native(response, tool_spec) ==
    NativeEach(tool_spec, GetOr(response.v["message"], "tool_calls", NoList).v, Response(0, 0, <<>>))

\* proc_eval: the extractor the `native` flag selects, applied to the
\* chat response of the model
proc_eval(response, tool_spec, native) ==
    IF native THEN extract_response_native(response, tool_spec)
    ELSE Return(extract_response_nonnative(response, tool_spec))

\* Response.__add__(self, other) on Responses of the heap h:
\* response = replace(self) copies the three fields, so response.prompts is
\* the list object of self; response += other then extends that list in place.
Response_add(h, self, other) ==
    [heap |-> [h EXCEPT ![self.prompts] = @ \o h[other.prompts]],
     response |-> Response(self.calls + other.calls, self.valid_calls + other.valid_calls, self.prompts)]

\* The value of a Response: its counters and the contents of its list
Shown(h, r) == Response(r.calls, r.valid_calls, h[r.prompts])

MaxCalls == 2
MaxResponses == 2

ToolSpecWith(required) ==
    JMap("name" :> JStr("gen")
         @@ "parameters" :> JMap("properties" :> JMap("prompt" :> EmptyMap @@ "style" :> EmptyMap)
                                 @@ "required" :> JList(required)))
ToolSpecs == {ToolSpecWith(<<JStr("prompt")>>), ToolSpecWith(<<>>)}

\* A function name and its arguments, as the model under evaluation emits them
CallBodies ==
    {<<JStr("gen"), JMap("prompt" :> JStr("p1"))>>,
     <<JStr("gen"), JMap("prompt" :> JStr("p2") @@ "style" :> JStr("s"))>>,
     <<JStr("gen"), JMap("style" :> JStr("s"))>>,
     <<JStr("other"), JMap("prompt" :> JStr("p1"))>>,
     <<JStr("gen"), JMap("prompt" :> JStr("p1") @@ "seed" :> JNum(1))>>,
     <<JStr("gen"), JNum(5)>>}
NativeCall(body) == JMap("function" :> JMap("name" :> body[1] @@ "arguments" :> body[2]))
NonnativeCall(body) == JMap("name" :> body[1] @@ "parameters" :> body[2])
CallLists(n, calls) == UNION {[1..k -> calls] : k \in 0..n}
NativeResponses(n) ==
    {JMap("message" :> JMap("tool_calls" :> JList(l))) : l \in CallLists(n, {NativeCall(b) : b \in CallBodies})}
    \cup {JMap("message" :> EmptyMap)}
NonnativeContents(n) ==
    {Json(JMap("tool_calls" :> JList(l))) : l \in CallLists(n, {NonnativeCall(b) : b \in CallBodies})}
    \cup {Json(NonnativeCall(b)) : b \in CallBodies}
    \cup {Json(JMap("tool_calls" :> JNum(5))), Json(EmptyMap), Malformed, NoBraces}
NonnativeResponses(n) ==
    {JMap("message" :> JMap("content" :> c)) : c \in NonnativeContents(n)} \cup {JMap("message" :> EmptyMap)}
ResponseLists(m, responses) == UNION {[1..k -> responses] : k \in 0..m}
EvalCalls(n, m) ==
    [fn : {"eval"}, tool_spec : ToolSpecs, native : {TRUE}, responses : ResponseLists(m, NativeResponses(n))]
    \cup [fn : {"eval"}, tool_spec : ToolSpecs, native : {FALSE}, responses : ResponseLists(m, NonnativeResponses(n))]

InitResponse ==
    /\ call \in EvalCalls(MaxCalls, MaxResponses)
    /\ eval_data = <<>> /\ heap = <<>>
    /\ ret = Pending /\ todo = <<>> /\ pc = "eval"
    /\ hints = <<>> /\ fs = <<>> /\ out = <<>> /\ log = <<>>
    /\ weight_regexps = InitialRegexps
    /\ args = NoArgs /\ fragment = NoFragment

\* data = [proc_eval(...) for _ in range(count)]: one element
ProcEval ==
    /\ pc = "eval" /\ Len(eval_data) < Len(call.responses)
    /\ LET r == proc_eval(call.responses[Len(eval_data) + 1], call.tool_spec, call.native) IN
       IF r.k = "raise"
       THEN /\ pc' = "aborted" /\ ret' = r
            /\ UNCHANGED <<eval_data, heap>>
       ELSE /\ heap' = Append(heap, r.v.prompts)
            /\ eval_data' = Append(eval_data, Response(r.v.calls, r.v.valid_calls, Len(heap) + 1))
            /\ UNCHANGED <<pc, ret>>
    /\ UNCHANGED <<hints, fs, todo, out, log, weight_regexps, call, args, fragment>>

\* collect: reduce(lambda x, y: x + y, data) takes data[0] itself as its
\* first accumulator and raises TypeError on an empty list
CollectBegin ==
    /\ pc = "eval" /\ Len(eval_data) = Len(call.responses)
    /\ IF eval_data = <<>>
       THEN pc' = "aborted" /\ ret' = Raise("TypeError") /\ UNCHANGED todo
       ELSE pc' = "collect" /\ ret' = Return(Head(eval_data)) /\ todo' = Tail(eval_data)
    /\ UNCHANGED <<hints, fs, out, log, weight_regexps, call, args, fragment, eval_data, heap>>

\* one step x + y of the reduce
CollectAdd ==
    /\ pc = "collect" /\ todo # <<>>
    /\ LET sum == Response_add(heap, ret.v, Head(todo)) IN
       /\ heap' = sum.heap
       /\ ret' = Return(sum.response)
    /\ todo' = Tail(todo)
    /\ UNCHANGED <<hints, fs, out, log, pc, weight_regexps, call, args, fragment, eval_data>>

\* print(f"{data=}\n{total=}")
CollectPrint ==
    /\ pc = "collect" /\ todo = <<>>
    /\ out' = Append(out, [kind |-> "collect",
                           data |-> [i \in DOMAIN eval_data |-> Shown(heap, eval_data[i])],
                           total |-> Shown(heap, ret.v)])
    /\ pc' = "folded"
    /\ UNCHANGED <<hints, fs, todo, log, weight_regexps, call, ret, args, fragment, eval_data, heap>>

NextResponse == ProcEval \/ CollectBegin \/ CollectAdd \/ CollectPrint

SpecResponse == InitResponse /\ [][NextResponse]_vars

\* What the k-th chat response yields on its own
Produced(k) == proc_eval(call.responses[k], call.tool_spec, call.native).v

RECURSIVE SumOf(_)
SumOf(k) ==
    IF k = 1 THEN Produced(1)
    ELSE Response(SumOf(k - 1).calls + Produced(k).calls,
                  SumOf(k - 1).valid_calls + Produced(k).valid_calls,
                  SumOf(k - 1).prompts \o Produced(k).prompts)

\* C27: x + y leaves both operands as they were and yields the sums of the
\* counters and the concatenation of the prompts; so while and after collect
\* folds the list, every element of it still shows what its own chat response
\* yielded, and the accumulator shows the sum of the elements folded so far.
C27_AddIsNonDestructive ==
    pc \in {"collect", "folded"} =>
        /\ \A k \in DOMAIN eval_data : Shown(heap, eval_data[k]) = Produced(k)
        /\ Shown(heap, ret.v) = SumOf(Len(eval_data) - Len(todo))

\* The function name and the arguments of the tool calls a chat response holds
ToolCallsOf(response) ==
    LET msg == response.v["message"] IN
    IF call.native
    THEN [i \in DOMAIN GetOr(msg, "tool_calls", NoList).v |->
            msg.v["tool_calls"].v[i].v["function"].v]
    ELSE IF "content" \notin DOMAIN msg.v \/ msg.v["content"].st # "json" THEN <<>>
    ELSE LET result == msg.v["content"].data IN
         IF "tool_calls" \notin DOMAIN result.v THEN IF DOMAIN result.v = {} THEN <<>> ELSE <<result.v>>
         ELSE IF result.v["tool_calls"].t # "list" THEN <<>>
         ELSE [i \in DOMAIN result.v["tool_calls"].v |-> result.v["tool_calls"].v[i].v]

ArgumentsKey == IF call.native THEN "arguments" ELSE "parameters"

\* The three conditions of a valid tool call
MeetsConditions(tool_call) ==
    /\ tool_call["name"] = JStr("gen")
    /\ tool_call[ArgumentsKey].t = "map"
    /\ DOMAIN tool_call[ArgumentsKey].v \subseteq {"prompt", "style"}
    /\ \A i \in DOMAIN call.tool_spec.v["parameters"].v["required"].v :
          call.tool_spec.v["parameters"].v["required"].v[i].v \in DOMAIN tool_call[ArgumentsKey].v

WellFormed(r) ==
    /\ 0 <= r.valid_calls /\ r.valid_calls <= r.calls
    /\ Len(heap[r.prompts]) = r.valid_calls

\* C28: every Response an extractor produced, and every sum of them, has
\* 0 <= valid_calls <= calls and as many prompts as valid calls; and a
\* response counts no more valid calls than it holds tool calls that name
\* the tool, use allowed argument keys only and give every required one.
C28_ResponseInvariant ==
    /\ \A k \in DOMAIN eval_data :
          /\ WellFormed(eval_data[k])
          /\ eval_data[k].valid_calls <=
                Cardinality({i \in DOMAIN ToolCallsOf(call.responses[k]) :
                                MeetsConditions(ToolCallsOf(call.responses[k])[i])})
    /\ pc \in {"collect", "folded"} => WellFormed(ret.v)

====
